---- MODULE Spec2Model ----
(***************************************************************************)
(* The download orchestrator of universal_subtitle_downloader:             *)
(* UniversalSubtitleDownloader.download_subtitles run for every request of *)
(* a batch_download call, together with the AI generator's model cache and *)
(* translation step.  One action is one stretch of code between two        *)
(* suspension points (await) of the coroutine.                             *)
(***************************************************************************)
EXTENDS Integers, Sequences, FiniteSets, TLC

\* ------------------------------------------------------------------ bounds
NReq == 2      \* requests handed to one batch_download call (SpecBatch)
MaxCap == 2    \* largest max_concurrent tried
MaxSeg == 1    \* most segments a transcription leaves after post-processing

\* --------------------------------------------------------------- constants
TranslationTarget == "zh-CN"
SupportedFormats == {"srt", "vtt", "ass", "ssa", "txt", "json", "csv", "xml", "ttml", "dfxp"}
NoSubtitlesError == "No subtitles found and AI generation disabled or failed"
MAX_RETRIES == 3

VARIABLES
  requests,        \* the DownloadRequest of every task of the batch
  video,           \* per request: the tracks the platform yields for it
  caps,            \* WHISPER_AVAILABLE, SPEECH_RECOGNITION_AVAILABLE, GOOGLETRANS_AVAILABLE
  max_concurrent,  \* batch_download's cap
  task,            \* per request: the coroutine's position and locals
  sem,             \* free permits of the asyncio.Semaphore
  whisper_models,  \* AISubtitleGenerator.whisper_models (names cached)
  stats,           \* UniversalSubtitleDownloader.stats
  batchpc,         \* "running" | "returned" | "Cancelled"
  results,         \* what batch_download returned
  call,            \* a component called on its own: the function and its arguments
  ret              \* what that call has produced so far

\* The state of the orchestrator.
ovars == <<requests, video, caps, max_concurrent, task, sem, whisper_models,
           stats, batchpc, results>>

vars == <<ovars, call, ret>>

\* No component is called on its own while the orchestrator runs.
NoCall == [fn |-> "none"]
NoRet == [kind |-> "none"]

Reqs == DOMAIN requests

Range(q) == {q[i] : i \in DOMAIN q}

\* ------------------------------------------------------------- data model
\* A SubtitleTrack, abstracted to what the orchestrator reads and writes:
\* text is "original" or "translated", nseg is len(segments).
Track(lang, src, txt, n) ==
  [language |-> lang, source |-> src, text |-> txt, nseg |-> n]

\* A track an extractor returns: src is "manual" or "auto_generated"; its segments are
\* never empty.
ExtractedTrack(lang, src) == Track(lang, src, "original", 1)

\* DownloadResult; request is a ghost field naming the request it answers.
MakeResultSuccessByFiles(id, tracks, files, ai) ==
  [kind |-> "result", request |-> id, success |-> files # <<>>,
   video_info |-> TRUE, subtitle_tracks |-> tracks, downloaded_files |-> files,
   ai_generated |-> ai,
   errors |-> IF files # <<>> THEN <<>> ELSE <<NoSubtitlesError>>]

MakeResultSilent(id, tracks, files, ai) ==
  [kind |-> "result", request |-> id, success |-> tracks # <<>>,
   video_info |-> TRUE, subtitle_tracks |-> tracks, downloaded_files |-> files,
   ai_generated |-> ai, errors |-> <<>>]

MakeResult(id, tracks, files, ai) ==
  [kind |-> "result", request |-> id, success |-> tracks # <<>>,
   video_info |-> TRUE, subtitle_tracks |-> tracks, downloaded_files |-> files,
   ai_generated |-> ai,
   errors |-> IF tracks # <<>> THEN <<>> ELSE <<NoSubtitlesError>>]

FailedResult(id, msg) ==
  [kind |-> "result", request |-> id, success |-> FALSE,
   video_info |-> FALSE, subtitle_tracks |-> <<>>, downloaded_files |-> <<>>,
   ai_generated |-> FALSE, errors |-> <<msg>>]

NoOutcome == [kind |-> "none"]
RaisedOutcome(msg) == [kind |-> "raised", error |-> msg]

InitTask(r) ==
  [id |-> r, pc |-> "queued", extractor |-> "none", log |-> <<>>,
   tracks |-> <<>>, audio |-> FALSE, had_audio |-> FALSE, model |-> "none",
   ai_generated |-> FALSE, pre |-> <<>>, translated |-> <<>>, xl |-> <<>>,
   pairs |-> <<>>, found |-> -1, info_calls |-> 0, extract_calls |-> 0,
   outcome |-> NoOutcome]

InitStats ==
  [total_requests |-> 0, successful_downloads |-> 0,
   ai_generated_count |-> 0, failed_requests |-> 0]

Terminal == {"Done", "Failed", "Raised", "Cancelled"}

\* ------------------------------------------------------ adapter selection
\* can_handle of the three adapters.  A URL is abstracted to what its host
\* contains: "both" is a host holding a YouTube and a Bilibili domain,
\* "invalid" has no scheme or no host.
CanHandle(ext, url) ==
  CASE ext = "youtube"  -> url \in {"youtube", "both"}
    [] ext = "bilibili" -> url \in {"bilibili", "both"}
    [] ext = "generic"  -> url # "invalid"
    [] OTHER -> FALSE

GetExtractorGenericFirst(url) ==
  IF CanHandle("generic", url) THEN "generic"
  ELSE IF CanHandle("youtube", url) THEN "youtube"
  ELSE IF CanHandle("bilibili", url) THEN "bilibili"
  ELSE "none"

GetExtractor(url) ==
  IF CanHandle("youtube", url) THEN "youtube"
  ELSE IF CanHandle("bilibili", url) THEN "bilibili"
  ELSE IF CanHandle("generic", url) THEN "generic"
  ELSE "none"

\* ------------------------------------------------ exits of download_subtitles
\* except Exception of download_subtitles: a failed DownloadResult is returned.
OuterExceptReraise(t, msg) ==
  [t EXCEPT !.pc = "Raised", !.outcome = RaisedOutcome(msg)]

OuterExcept(t, msg) ==
  [t EXCEPT !.pc = "Failed", !.outcome = FailedResult(t.id, msg),
            !.log = Append(@, "Failed")]

StatsFailed(st) == [st EXCEPT !.failed_requests = @ + 1]

\* Steps 8 and 9: the result of the normal path and the statistics.
ReturnResult(t, files) ==
  LET res == MakeResult(t.id, t.tracks, files, t.ai_generated)
      end == IF res.success THEN "Done" ELSE "Failed"
  IN [t EXCEPT !.pc = end, !.outcome = res, !.log = Append(@, end)]

StatsReturned(st, t) ==
  IF t.outcome.kind = "result" /\ t.outcome.success
    THEN [st EXCEPT !.successful_downloads = @ + 1]
    ELSE StatsFailed(st)

\* ------------------------------------------------------- stage transitions
ToConvert(t) ==
  [t EXCEPT !.pc = "convert",
            !.log = IF t.tracks # <<>> THEN Append(@, "convert") ELSE @]

\* Step 6 is entered when translation is requested and there are tracks.
AfterAI(t, req) ==
  IF req.enable_translation /\ t.tracks # <<>>
    THEN [t EXCEPT !.pc = "translate", !.log = Append(@, "translate"),
                   !.pre = t.tracks, !.translated = <<>>, !.xl = <<>>]
    ELSE ToConvert(t)

AfterExtractAlwaysAI(t, req) ==
  IF req.enable_ai_fallback
    THEN [t EXCEPT !.pc = "audio", !.log = Append(@, "ai_fallback")]
    ELSE AfterAI(t, req)

\* Step 5 is entered when extraction found nothing and the fallback is on.
AfterExtract(t, req) ==
  IF t.tracks = <<>> /\ req.enable_ai_fallback
    THEN [t EXCEPT !.pc = "audio", !.log = Append(@, "ai_fallback")]
    ELSE AfterAI(t, req)

\* --------------------------------------------------------------- semaphore
SemFreeAlways(s) == TRUE

SemFree(s) == s > 0

Inside(r) == task[r].pc \notin Terminal \cup {"queued"}

\* ----------------------------------------------------------------- actions
\* async with semaphore; stats; step 1 (_get_extractor).
Begin(r) ==
  /\ batchpc = "running"
  /\ task[r].pc = "queued"
  /\ \A q \in Reqs : q < r => task[q].pc # "queued"
  /\ SemFree(sem)
  /\ LET ext == GetExtractor(requests[r].url)
         t0 == [task[r] EXCEPT !.extractor = ext, !.log = Append(@, "select")]
         st == [stats EXCEPT !.total_requests = @ + 1]
     IN IF ext = "none"
          THEN /\ task' = [task EXCEPT ![r] = OuterExcept(t0, "Unsupported platform")]
               /\ stats' = StatsFailed(st)
               /\ sem' = sem
          ELSE /\ task' = [task EXCEPT ![r] =
                              [t0 EXCEPT !.pc = "info", !.log = Append(@, "info")]]
               /\ stats' = st
               /\ sem' = sem - 1
  /\ UNCHANGED <<call, ret, requests, video, caps, max_concurrent, whisper_models, batchpc, results>>

\* One call of a method of the extraction collaborator is counted.
Called(t, method) ==
  IF method = "extract_video_info"
    THEN [t EXCEPT !.info_calls = @ + 1]
    ELSE [t EXCEPT !.extract_calls = @ + 1]

\* Step 2: await extractor.extract_video_info(url), called once.
FetchInfo(r) ==
  /\ batchpc = "running"
  /\ task[r].pc = "info"
  /\ \E ok \in BOOLEAN :
       IF ok
         THEN /\ task' = [task EXCEPT ![r] =
                             [Called(@, "extract_video_info") EXCEPT
                                !.pc = "extract", !.log = Append(@, "extract")]]
              /\ UNCHANGED <<stats, sem>>
         ELSE /\ task' = [task EXCEPT ![r] =
                             OuterExcept(Called(@, "extract_video_info"),
                                         "video info failed")]
              /\ stats' = StatsFailed(stats)
              /\ sem' = sem + 1
  /\ UNCHANGED <<call, ret, requests, video, caps, max_concurrent, whisper_models, batchpc, results>>

\* Step 4: await extractor.extract_subtitles(url, languages), called once.
Extract(r) ==
  /\ batchpc = "running"
  /\ task[r].pc = "extract"
  /\ \E ok \in BOOLEAN :
       IF ok
         THEN /\ task' = [task EXCEPT ![r] =
                             AfterExtract([Called(@, "extract_subtitles") EXCEPT
                                             !.tracks = video[r],
                                             !.found = Len(video[r])],
                                          requests[r])]
              /\ UNCHANGED <<stats, sem>>
         ELSE /\ task' = [task EXCEPT ![r] =
                             OuterExcept(Called(@, "extract_subtitles"),
                                         "subtitle extraction failed")]
              /\ stats' = StatsFailed(stats)
              /\ sem' = sem + 1
  /\ UNCHANGED <<call, ret, requests, video, caps, max_concurrent, whisper_models, batchpc, results>>

\* ------------------------------------------------------------- AI fallback
\* generate_subtitles: which engine serves the request.
Engine(req, c) ==
  IF req.ai_model_type = "whisper" /\ c.whisper
    THEN [engine |-> "whisper", model |-> req.ai_model]
  ELSE IF req.ai_model_type = "speech_recognition" /\ c.speech_recognition
    THEN [engine |-> "sr", model |-> "none"]
  ELSE IF c.whisper THEN [engine |-> "whisper", model |-> "base"]
  ELSE IF c.speech_recognition THEN [engine |-> "sr", model |-> "none"]
  ELSE [engine |-> "none", model |-> "none"]

\* The language the transcription reports.
DetectedLanguages == {"en"}

\* create_subtitle_track_from_ai
AITrack(lang, model_used, n) == Track(lang, "ai_" \o model_used, "original", n)

\* except Exception of step 5: a warning is logged, nothing else is done.
AIFailed(t, req) == AfterAI(t, req)

\* Step 5 after a transcription: the track is appended and the audio unlinked.
AISucceeded(t, req, trk) ==
  AfterAI([t EXCEPT !.tracks = Append(@, trk), !.ai_generated = TRUE,
                    !.audio = FALSE], req)

\* await _download_audio_for_ai, then generate_subtitles up to its first await.
DownloadAudio(r) ==
  /\ batchpc = "running"
  /\ task[r].pc = "audio"
  /\ \E o \in {"ok", "none", "raise"} :
       LET t1 == [task[r] EXCEPT !.audio = TRUE, !.had_audio = TRUE]
           e  == Engine(requests[r], caps)
       IN IF o # "ok"
            THEN task' = [task EXCEPT ![r] = AIFailed(@, requests[r])]
          ELSE IF e.engine = "whisper"
            THEN task' = [task EXCEPT ![r] =
                   [t1 EXCEPT !.model = e.model,
                              !.pc = IF e.model \in whisper_models
                                       THEN "transcribing" ELSE "loading"]]
          ELSE IF e.engine = "sr"
            THEN task' = [task EXCEPT ![r] = [t1 EXCEPT !.pc = "sr"]]
          ELSE task' = [task EXCEPT ![r] = AIFailed(t1, requests[r])]
  /\ UNCHANGED <<call, ret, requests, video, caps, max_concurrent, sem, whisper_models,
                 stats, batchpc, results>>

\* _generate_with_whisper: await run_in_executor(whisper.load_model).
LoadModel(r) ==
  /\ batchpc = "running"
  /\ task[r].pc = "loading"
  /\ \E ok \in BOOLEAN :
       IF ok
         THEN /\ whisper_models' = whisper_models \cup {task[r].model}
              /\ task' = [task EXCEPT ![r] = [@ EXCEPT !.pc = "transcribing"]]
         ELSE /\ task' = [task EXCEPT ![r] = AIFailed(@, requests[r])]
              /\ UNCHANGED whisper_models
  /\ UNCHANGED <<call, ret, requests, video, caps, max_concurrent, sem, stats, batchpc, results>>

\* _generate_with_whisper: await run_in_executor(model.transcribe), then the
\* post-processing, the track and the cleanup of step 5.
Transcribe(r) ==
  /\ batchpc = "running"
  /\ task[r].pc = "transcribing"
  /\ \/ /\ task' = [task EXCEPT ![r] = AIFailed(@, requests[r])]
        /\ UNCHANGED stats
     \/ \E n \in 0..MaxSeg, lang \in DetectedLanguages :
          /\ task' = [task EXCEPT ![r] =
                AISucceeded(@, requests[r],
                            AITrack(lang, "whisper-" \o task[r].model, n))]
          /\ stats' = [stats EXCEPT !.ai_generated_count = @ + 1]
  /\ UNCHANGED <<call, ret, requests, video, caps, max_concurrent, sem, whisper_models,
                 batchpc, results>>

\* _generate_with_speech_recognition, then the track and the cleanup of step 5.
SpeechRecognition(r) ==
  /\ batchpc = "running"
  /\ task[r].pc = "sr"
  /\ \/ /\ task' = [task EXCEPT ![r] = AIFailed(@, requests[r])]
        /\ UNCHANGED stats
     \/ \E n \in 0..MaxSeg, lang \in DetectedLanguages :
          /\ task' = [task EXCEPT ![r] =
                AISucceeded(@, requests[r], AITrack(lang, "speech_recognition", n))]
          /\ stats' = [stats EXCEPT !.ai_generated_count = @ + 1]
  /\ UNCHANGED <<call, ret, requests, video, caps, max_concurrent, sem, whisper_models,
                 batchpc, results>>

\* ------------------------------------------------------------- translation
\* translate_subtitles never raises: what it returns, by what happened in it.
TranslateOutcomes(c) ==
  IF c.google_translate THEN {"ok", "batch_failed", "error"} ELSE {"unavailable"}

\* Step 6, one track: the SubtitleTrack built from what translate_subtitles
\* returned.
TranslatedTrack(trk, o) ==
  Track(TranslationTarget, "translated_from_" \o trk.language,
        IF o = "ok" THEN "translated" ELSE "original", trk.nseg)

TranslateTrack(r) ==
  /\ batchpc = "running"
  /\ task[r].pc = "translate"
  /\ LET t   == task[r]
         i   == Len(t.translated) + 1
         trk == t.tracks[i]
         Done(new, o) ==
           LET t1 == [t EXCEPT !.translated = Append(@, new), !.xl = Append(@, o)]
           IN IF i = Len(t.tracks)
                THEN ToConvert([t1 EXCEPT !.tracks = t1.translated])
                ELSE t1
     IN IF trk.language = TranslationTarget
          THEN task' = [task EXCEPT ![r] = Done(trk, "same")]
          ELSE \E o \in TranslateOutcomes(caps) :
                 task' = [task EXCEPT ![r] = Done(TranslatedTrack(trk, o), o)]
  /\ UNCHANGED <<call, ret, requests, video, caps, max_concurrent, sem, whisper_models,
                 stats, batchpc, results>>

\* ------------------------------------------------- conversion and writing
\* convert_subtitle_track raises for an unknown format or an empty track.
ConvertOk(trk, fmt) == fmt \in SupportedFormats /\ trk.nseg > 0

\* _generate_filename under the default template "{title}_{language}.{format}".
Filename(trk, fmt) == "title_" \o trk.language \o "." \o fmt

\* Step 7: the loop over tracks and formats.  F holds the positions of the
\* pairs whose filename generation or file write raises.  Entry k records
\* what happened to the k-th pair.
ConversionLoop(tracks, formats, F) ==
  [k \in 1..(Len(tracks) * Len(formats)) |->
     LET i == ((k - 1) \div Len(formats)) + 1
         j == ((k - 1) % Len(formats)) + 1
     IN [track |-> i, format |-> formats[j],
         path |-> Filename(tracks[i], formats[j]),
         ok |-> ConvertOk(tracks[i], formats[j]) /\ k \notin F]]

\* downloaded_files: the paths appended by the pairs that did not raise.
RECURSIVE SavedPaths(_)
SavedPaths(log) ==
  IF log = <<>> THEN <<>>
  ELSE (IF Head(log).ok THEN <<Head(log).path>> ELSE <<>>) \o SavedPaths(Tail(log))

\* The request returns (or its exception leaves it): the semaphore is released.
Finish(r, t) ==
  /\ task' = [task EXCEPT ![r] = t]
  /\ stats' = StatsReturned(stats, t)
  /\ sem' = sem + 1

\* Steps 7 to 9; no await separates them.
Convert(r) ==
  /\ batchpc = "running"
  /\ task[r].pc = "convert"
  /\ LET t == task[r]
     IN IF t.tracks = <<>>
          THEN Finish(r, ReturnResult(t, <<>>))
          ELSE \E mkdir_ok \in BOOLEAN :
                 IF ~mkdir_ok
                   THEN Finish(r, OuterExcept(t, "mkdir failed"))
                   ELSE \E F \in SUBSET (1..(Len(t.tracks) * Len(requests[r].formats))) :
                          LET log == ConversionLoop(t.tracks, requests[r].formats, F)
                          IN Finish(r, ReturnResult([t EXCEPT !.pairs = log],
                                                    SavedPaths(log)))
  /\ UNCHANGED <<call, ret, requests, video, caps, max_concurrent, whisper_models, batchpc, results>>

\* ------------------------------------------------------------ batch_download
\* The caller cancels the call while gather is pending: CancelledError is
\* raised at the await of every pending request; no except Exception catches
\* it, async with releases the semaphore.
Cancel ==
  /\ batchpc = "running"
  /\ \E r \in Reqs : task[r].pc \notin Terminal
  /\ task' = [r \in Reqs |->
                IF task[r].pc \in Terminal THEN task[r]
                ELSE [task[r] EXCEPT !.pc = "Cancelled"]]
  /\ sem' = sem + Cardinality({r \in Reqs : Inside(r)})
  /\ batchpc' = "Cancelled"
  /\ UNCHANGED <<call, ret, requests, video, caps, max_concurrent, whisper_models, stats, results>>

ProcessedResultsDropFailed(g) ==
  SelectSeq(g, LAMBDA x : x.kind = "result" /\ x.success)

\* The loop over gather's results: an exception becomes a failed result.
ProcessedResults(g) ==
  [i \in DOMAIN g |->
     IF g[i].kind = "raised" THEN FailedResult(i, g[i].error) ELSE g[i]]

\* gather(*tasks, return_exceptions=True) completed: results in request order.
BatchReturn ==
  /\ batchpc = "running"
  /\ \A r \in Reqs : task[r].pc \in {"Done", "Failed", "Raised"}
  /\ results' = ProcessedResults([r \in Reqs |-> task[r].outcome])
  /\ batchpc' = "returned"
  /\ UNCHANGED <<call, ret, requests, video, caps, max_concurrent, task, sem, whisper_models, stats>>

\* ------------------------------------------------------------ specification
Urls == {"youtube", "bilibili", "both", "other", "invalid"}
FormatLists == {<<"srt", "vtt">>, <<"srt", "foo">>}

Requests ==
  [url : Urls, enable_ai_fallback : BOOLEAN, enable_translation : BOOLEAN,
   ai_model : {"base"}, ai_model_type : {"whisper", "speech_recognition"},
   formats : FormatLists]

Videos ==
  {<<>>, <<ExtractedTrack("en", "manual")>>,
   <<ExtractedTrack("zh-CN", "manual"), ExtractedTrack("en", "manual")>>,
   <<ExtractedTrack("en", "manual"), ExtractedTrack("en", "auto_generated")>>}

CapSets == [whisper : BOOLEAN, speech_recognition : BOOLEAN, google_translate : BOOLEAN]

InitRun ==
  /\ task = [r \in DOMAIN requests |-> InitTask(r)]
  /\ sem = max_concurrent
  /\ whisper_models = {}
  /\ stats = InitStats
  /\ batchpc = "running"
  /\ results = <<>>
  /\ call = NoCall
  /\ ret = NoRet

\* One request.
Init ==
  /\ requests \in [1..1 -> Requests]
  /\ video \in [1..1 -> Videos]
  /\ caps \in CapSets
  /\ max_concurrent \in 1..MaxCap
  /\ InitRun

\* The requests of a batch, each with what its platform yields: an AI request
\* served by Whisper, one served by speech recognition and then translated,
\* a request with an extracted track to translate, an unsupported URL.
BatchScenarios ==
  {[request |-> [url |-> "youtube", enable_ai_fallback |-> TRUE,
                 enable_translation |-> FALSE, ai_model |-> "base",
                 ai_model_type |-> "whisper", formats |-> <<"srt">>],
    video |-> <<>>],
   [request |-> [url |-> "other", enable_ai_fallback |-> TRUE,
                 enable_translation |-> TRUE, ai_model |-> "base",
                 ai_model_type |-> "speech_recognition", formats |-> <<"srt">>],
    video |-> <<>>],
   [request |-> [url |-> "bilibili", enable_ai_fallback |-> FALSE,
                 enable_translation |-> TRUE, ai_model |-> "base",
                 ai_model_type |-> "whisper", formats |-> <<"srt">>],
    video |-> <<ExtractedTrack("en", "manual")>>],
   [request |-> [url |-> "invalid", enable_ai_fallback |-> TRUE,
                 enable_translation |-> FALSE, ai_model |-> "base",
                 ai_model_type |-> "whisper", formats |-> <<"srt">>],
    video |-> <<>>]}

\* A batch of NReq requests.
InitBatch ==
  /\ \E sc \in [1..NReq -> BatchScenarios] :
       /\ requests = [r \in 1..NReq |-> sc[r].request]
       /\ video = [r \in 1..NReq |-> sc[r].video]
  /\ caps = [whisper |-> TRUE, speech_recognition |-> TRUE, google_translate |-> TRUE]
  /\ max_concurrent \in 1..MaxCap
  /\ InitRun

Next ==
  \/ \E r \in Reqs : Begin(r)
  \/ \E r \in Reqs : FetchInfo(r)
  \/ \E r \in Reqs : Extract(r)
  \/ \E r \in Reqs : DownloadAudio(r)
  \/ \E r \in Reqs : LoadModel(r)
  \/ \E r \in Reqs : Transcribe(r)
  \/ \E r \in Reqs : SpeechRecognition(r)
  \/ \E r \in Reqs : TranslateTrack(r)
  \/ \E r \in Reqs : Convert(r)
  \/ Cancel
  \/ BatchReturn

\* The steps of request r's coroutine.
RequestStep(r) ==
  \/ FetchInfo(r) \/ Extract(r) \/ DownloadAudio(r) \/ LoadModel(r)
  \/ Transcribe(r) \/ SpeechRecognition(r) \/ TranslateTrack(r) \/ Convert(r)

Spec == Init /\ [][Next]_vars

SpecBatch == InitBatch /\ [][Next]_vars

\* ------------------------------------------------------ extraction adapters
\* The language tags of the captions a platform lists.
Langs == {"zh", "zh-CN", "en"}

\* lang.split('-')[0]
BaseLang(lang) == IF lang = "zh-CN" THEN "zh" ELSE lang

ChineseVariants == {"zh", "zh-CN", "zh-TW", "zh-Hans", "zh-Hant"}
EnglishVariants == {"en", "en-US", "en-GB"}

\* GenericSubtitleExtractor._language_matches
GenericLanguageMatches(subtitle_lang, request_lang) ==
  \/ subtitle_lang = request_lang
  \/ (subtitle_lang \in ChineseVariants /\ request_lang \in ChineseVariants)
  \/ (subtitle_lang \in EnglishVariants /\ request_lang \in EnglishVariants)
  \/ BaseLang(subtitle_lang) = BaseLang(request_lang)

\* BilibiliSubtitleExtractor._language_matches
BilibiliLanguageMatches(subtitle_lang, request_lang) ==
  \/ subtitle_lang = request_lang
  \/ (subtitle_lang \in ChineseVariants /\ request_lang \in ChineseVariants)
  \/ BaseLang(subtitle_lang) = BaseLang(request_lang)

\* An offer is {url, ext}.  blob is what its url leads to: "no_url" (the
\* offer has none), "unreachable" (download_subtitle_content raises) or
\* "cues" (a document of the offer's format holding cues).
Exts == {"vtt", "ttml", "srv1", "json3"}
Blobs == {"cues", "unreachable", "no_url"}
Offers == [ext : Exts, blob : Blobs]

\* parse_subtitle_content returns [] for a format it has no parser for.
ParsableExts == {"vtt", "srt", "srv3", "srv2", "srv1", "ttml", "ass", "ssa"}

\* The offer downloads and parses to a non-empty segment list.
Yields(offer) == offer.blob = "cues" /\ offer.ext \in ParsableExts

YouTubeFormatPriority == <<"vtt", "srv3", "srv2", "srv1", "ttml">>
GenericFormatPriority == <<"vtt", "srt", "ttml", "srv3", "srv2", "srv1", "ass", "ssa">>
GenericOfferLimit == 3

FormatPriority(adapter) ==
  IF adapter = "generic" THEN GenericFormatPriority ELSE YouTubeFormatPriority

\* The sort key: format_priority.index(ext), 999 for a format not in the list.
FormatRank(priority, ext) ==
  IF \E i \in DOMAIN priority : priority[i] = ext
    THEN (CHOOSE i \in DOMAIN priority : priority[i] = ext) - 1
    ELSE 999

\* Every offer with its position in the list the platform gave, standing for
\* its url.
Tagged(offers) ==
  [i \in DOMAIN offers |-> [ext |-> offers[i].ext, blob |-> offers[i].blob, url |-> i]]

\* sorted(subtitle_formats, key=...): a stable sort by FormatRank.
SortedOffers(priority, offers) ==
  LET Before(j, i) ==
        \/ FormatRank(priority, offers[j].ext) < FormatRank(priority, offers[i].ext)
        \/ /\ FormatRank(priority, offers[j].ext) = FormatRank(priority, offers[i].ext)
           /\ j < i
      Position(i) == Cardinality({j \in DOMAIN offers : Before(j, i)}) + 1
  IN [k \in DOMAIN offers |-> offers[CHOOSE i \in DOMAIN offers : Position(i) = k]]

\* The loop over the sorted offers: an offer without url is skipped, every
\* other one is downloaded; the first that yields segments ends the loop.
\* hit holds that offer (or nothing), fetched the urls downloaded.
RECURSIVE TryOffers(_, _)
TryOffers(sorted, fetched) ==
  IF sorted = <<>> THEN [hit |-> <<>>, fetched |-> fetched]
  ELSE IF Head(sorted).blob = "no_url" THEN TryOffers(Tail(sorted), fetched)
  ELSE IF Yields(Head(sorted))
    THEN [hit |-> <<Head(sorted)>>, fetched |-> Append(fetched, Head(sorted).url)]
  ELSE TryOffers(Tail(sorted), Append(fetched, Head(sorted).url))

\* The offers the loop goes through: all of them in the YouTube adapter, the
\* first GenericOfferLimit of the sorted list in the generic adapter.
OffersTried(adapter, offers) ==
  LET sorted == SortedOffers(FormatPriority(adapter), Tagged(offers))
  IN IF adapter = "generic" /\ Len(sorted) > GenericOfferLimit
       THEN SubSeq(sorted, 1, GenericOfferLimit)
       ELSE sorted

TrackSource(adapter, auto) ==
  CASE adapter = "youtube" -> IF auto THEN "auto_generated" ELSE "manual"
    [] adapter = "generic" -> IF auto THEN "generic_auto" ELSE "generic_manual"
    [] OTHER -> "bilibili"

\* The SubtitleTrack an adapter builds from the offer that yielded segments.
CaptionTrack(adapter, language, auto, offer) ==
  [language |-> language, is_auto_generated |-> auto, format |-> offer.ext,
   url |-> offer.url, source |-> TrackSource(adapter, auto), nseg |-> 1]

\* _extract_manual_subtitles, _extract_auto_captions (YouTube) and
\* _extract_subtitle_tracks (generic): no track or one track.
ExtractTracks(adapter, offers, language, auto) ==
  LET res == TryOffers(OffersTried(adapter, offers), <<>>)
  IN [tracks |-> [i \in DOMAIN res.hit |->
                    CaptionTrack(adapter, language, auto, res.hit[i])],
      fetched |-> res.fetched]

\* The tracks of ExtractTracks for the captions dict[key], when key is in it.
TracksOf(adapter, dict, key, auto) ==
  IF key \in DOMAIN dict
    THEN ExtractTracks(adapter, dict[key], key, auto).tracks
    ELSE <<>>

\* Step 3 of YouTube's and the generic adapter's extract_subtitles.
EnglishFallback(adapter, languages, manual, auto, found) ==
  IF found = <<>> /\ "en" \notin Range(languages)
    THEN IF "en" \in DOMAIN manual THEN TracksOf(adapter, manual, "en", FALSE)
         ELSE IF "en" \in DOMAIN auto THEN TracksOf(adapter, auto, "en", TRUE)
         ELSE <<>>
    ELSE found

\* YouTubeSubtitleExtractor.extract_subtitles, step 1.
RECURSIVE YouTubeManual(_, _)
YouTubeManual(languages, manual) ==
  IF languages = <<>> THEN <<>>
  ELSE TracksOf("youtube", manual, Head(languages), FALSE)
         \o YouTubeManual(Tail(languages), manual)

\* YouTubeSubtitleExtractor.extract_subtitles, step 2.
RECURSIVE YouTubeAuto(_, _)
YouTubeAuto(languages, auto) ==
  IF languages = <<>> THEN <<>>
  ELSE (IF Head(languages) \in DOMAIN auto
          THEN TracksOf("youtube", auto, Head(languages), TRUE)
          ELSE TracksOf("youtube", auto, BaseLang(Head(languages)), TRUE))
         \o YouTubeAuto(Tail(languages), auto)

YouTubeExtractSubtitles(languages, manual, auto) ==
  EnglishFallback("youtube", languages, manual, auto,
                  YouTubeManual(languages, manual) \o YouTubeAuto(languages, auto))

\* The order in which the keys of a captions dict are gone through.  With
\* the tags of Langs at most one key other than the requested one matches a
\* requested language, so the order decides nothing.
KeyOrder == <<"zh", "zh-CN", "en">>

\* The first key of dict that _language_matches the requested language, as a
\* sequence of no or one key.
VariantKey(dict, lang) ==
  LET hits == SelectSeq(KeyOrder, LAMBDA k :
                k \in DOMAIN dict /\ GenericLanguageMatches(k, lang))
  IN IF hits = <<>> THEN <<>> ELSE <<Head(hits)>>

\* One requested language against a captions dict: the exact key, else the
\* first matching key.
GenericResolve(dict, lang, auto) ==
  IF lang \in DOMAIN dict THEN TracksOf("generic", dict, lang, auto)
  ELSE IF VariantKey(dict, lang) # <<>>
    THEN TracksOf("generic", dict, VariantKey(dict, lang)[1], auto)
  ELSE <<>>

\* GenericSubtitleExtractor.extract_subtitles, step 1.
RECURSIVE GenericManual(_, _)
GenericManual(languages, manual) ==
  IF languages = <<>> THEN <<>>
  ELSE GenericResolve(manual, Head(languages), FALSE)
         \o GenericManual(Tail(languages), manual)

\* GenericSubtitleExtractor.extract_subtitles, step 2: a language is skipped
\* when a manual track carries exactly the requested tag.
RECURSIVE GenericAuto(_, _, _)
GenericAuto(languages, auto, manual_tracks) ==
  IF languages = <<>> THEN <<>>
  ELSE (IF \E i \in DOMAIN manual_tracks :
               manual_tracks[i].language = Head(languages)
          THEN <<>>
          ELSE GenericResolve(auto, Head(languages), TRUE))
         \o GenericAuto(Tail(languages), auto, manual_tracks)

GenericExtractSubtitles(languages, manual, auto) ==
  LET m == GenericManual(languages, manual)
  IN EnglishFallback("generic", languages, manual, auto,
                     m \o GenericAuto(languages, auto, m))

\* The subtitle list of Bilibili's player API: one entry per caption, with
\* one subtitle_url each; type 1 marks an AI-generated caption.  The list is
\* built here from the same two dicts as for the other adapters, the entry's
\* subtitle_url being the first offer.  _get_subtitle_list returns [] when
\* the video's numeric id (aid) is not known.
BilibiliSubtitleList(manual, auto, has_aid) ==
  LET Entries(dict, type) ==
        LET keys == SelectSeq(KeyOrder, LAMBDA k : k \in DOMAIN dict)
        IN [i \in DOMAIN keys |->
              [lan |-> keys[i], type |-> type, blob |-> dict[keys[i]][1].blob]]
  IN IF has_aid THEN Entries(manual, 0) \o Entries(auto, 1) ELSE <<>>

\* BilibiliSubtitleExtractor.extract_subtitles: every entry whose language
\* matches a requested one and whose document downloads and parses.
BilibiliExtractSubtitles(languages, subtitle_list) ==
  LET kept == SelectSeq(subtitle_list, LAMBDA s :
                /\ \E i \in DOMAIN languages : BilibiliLanguageMatches(s.lan, languages[i])
                /\ s.blob = "cues")
  IN [i \in DOMAIN kept |->
        [language |-> kept[i].lan, is_auto_generated |-> kept[i].type = 1,
         format |-> "srt", url |-> i, source |-> TrackSource("bilibili", FALSE),
         nseg |-> 1]]

\* extract_subtitles of the adapter named in the call.
AdapterExtractSubtitles(c) ==
  CASE c.adapter = "youtube" -> YouTubeExtractSubtitles(c.languages, c.manual, c.auto)
    [] c.adapter = "generic" -> GenericExtractSubtitles(c.languages, c.manual, c.auto)
    [] OTHER -> BilibiliExtractSubtitles(c.languages,
                  BilibiliSubtitleList(c.manual, c.auto, c.has_aid))

\* await extractor.extract_subtitles(url, languages): yt-dlp's extract_info
\* fails and the adapter raises, or the tracks are returned.
CallExtractSubtitles ==
  /\ call.fn = "extract_subtitles"
  /\ ret.kind = "pending"
  /\ ret' = IF call.info_ok
              THEN [kind |-> "tracks", tracks |-> AdapterExtractSubtitles(call),
                    fetched |-> <<>>]
              ELSE [kind |-> "raised"]
  /\ UNCHANGED <<call, ovars>>

\* One call of the helper that turns one language's offers into a track.
CallExtractTracks ==
  /\ call.fn = "extract_tracks"
  /\ ret.kind = "pending"
  /\ LET res == ExtractTracks(call.adapter, call.offers, call.language, call.auto)
     IN ret' = [kind |-> "tracks", tracks |-> res.tracks, fetched |-> res.fetched]
  /\ UNCHANGED <<call, ovars>>

\* The orchestrator is not running while a component is called on its own.
IdleOrchestrator ==
  /\ requests = <<>>
  /\ video = <<>>
  /\ caps = [whisper |-> FALSE, speech_recognition |-> FALSE, google_translate |-> FALSE]
  /\ max_concurrent = 1
  /\ task = <<>>
  /\ sem = 1
  /\ whisper_models = {}
  /\ stats = InitStats
  /\ batchpc = "idle"
  /\ results = <<>>

MaxOffers == 4

\* Offer lists of one to MaxOffers offers.
OfferLists == UNION {[1..n -> Offers] : n \in 1..MaxOffers}

\* The offers of one language in a captions dict: one that yields, one that
\* does not.
CaptionOffers ==
  {<<[ext |-> "vtt", blob |-> "cues"]>>, <<[ext |-> "vtt", blob |-> "unreachable"]>>}

CaptionDicts == UNION {[S -> CaptionOffers] : S \in SUBSET Langs}

LanguageLists == {<<"zh-CN">>, <<"en">>, <<"zh">>, <<"zh-CN", "en">>, <<"zh-CN", "zh">>}

ExtractSubtitlesCalls ==
  {c \in [fn : {"extract_subtitles"}, adapter : {"youtube", "bilibili", "generic"},
          languages : LanguageLists, manual : CaptionDicts, auto : CaptionDicts,
          has_aid : BOOLEAN, info_ok : BOOLEAN] :
     c.adapter # "bilibili" => c.has_aid}

ExtractTracksCalls ==
  [fn : {"extract_tracks"}, adapter : {"youtube", "generic"}, offers : OfferLists,
   language : {"en"}, auto : BOOLEAN]

InitExtract ==
  /\ call \in ExtractSubtitlesCalls \cup ExtractTracksCalls
  /\ ret = [kind |-> "pending"]
  /\ IdleOrchestrator

NextExtract == CallExtractSubtitles \/ CallExtractTracks

SpecExtract == InitExtract /\ [][NextExtract]_vars

\* ------------------------------------------------------- format converter
\* Times are counted in ticks of a tenth of a millisecond, so that what the
\* formats cut off below a millisecond or a centisecond is visible.  A text
\* is the sequence of its characters.
TicksPerSecond == 10000

Whitespace == {" ", "\n"}

\* SubtitleSegment; confidence in hundredths.  A parser that reads no
\* confidence and no language leaves the dataclass defaults 1.0 and "".
Segment(start, end, text, confidence, language) ==
  [start_time |-> start, end_time |-> end, text |-> text,
   confidence |-> confidence, language |-> language]

ParsedCue(start, end, text) == Segment(start, end, text, 100, "")

\* str.lstrip, str.rstrip, str.strip
RECURSIVE LStrip(_)
LStrip(cs) ==
  IF cs # <<>> /\ Head(cs) \in Whitespace THEN LStrip(Tail(cs)) ELSE cs

RECURSIVE RStrip(_)
RStrip(cs) ==
  IF cs # <<>> /\ cs[Len(cs)] \in Whitespace
    THEN RStrip(SubSeq(cs, 1, Len(cs) - 1))
    ELSE cs

Strip(cs) == LStrip(RStrip(cs))

\* str.split('\n')
RECURSIVE SplitLines(_)
SplitLines(cs) ==
  IF \A i \in DOMAIN cs : cs[i] # "\n" THEN <<cs>>
  ELSE LET k == CHOOSE i \in DOMAIN cs :
                  cs[i] = "\n" /\ \A j \in 1..(i - 1) : cs[j] # "\n"
       IN <<SubSeq(cs, 1, k - 1)>> \o SplitLines(SubSeq(cs, k + 1, Len(cs)))

\* '\n'.join(lines)
RECURSIVE JoinLines(_)
JoinLines(ls) ==
  IF ls = <<>> THEN <<>>
  ELSE IF Len(ls) = 1 THEN ls[1]
  ELSE ls[1] \o <<"\n">> \o JoinLines(Tail(ls))

\* _seconds_to_srt_time, _seconds_to_vtt_time (units = 1000) and
\* _seconds_to_ass_time (units = 100): hours, minutes, seconds and the
\* fraction cut off to the unit.
TimeFields(t, units) ==
  [h |-> t \div (3600 * TicksPerSecond),
   m |-> (t % (3600 * TicksPerSecond)) \div (60 * TicksPerSecond),
   s |-> (t % (60 * TicksPerSecond)) \div TicksPerSecond,
   f |-> ((t % TicksPerSecond) * units) \div TicksPerSecond]

\* _srt_time_to_seconds, _vtt_time_to_seconds, _ass_time_to_seconds
FieldsToTime(x, units) ==
  (x.h * 3600 + x.m * 60 + x.s) * TicksPerSecond + x.f * (TicksPerSecond \div units)

NoTime == [h |-> 0, m |-> 0, s |-> 0, f |-> 0]

\* A document is the list of its lines, that is content.split('\n') of the
\* '\n'.join(...) the generator returns: a list item holding a text with
\* newlines gives several lines.  kind is "text" for a line of cue text (or
\* an empty line), "index", "timing", "header", "events" and "dialogue" for
\* the lines a generator writes itself.
Line(kind, chars, start, end) ==
  [kind |-> kind, chars |-> chars, start |-> start, end |-> end]

TextLines(text) ==
  [k \in DOMAIN SplitLines(text) |-> Line("text", SplitLines(text)[k], NoTime, NoTime)]

EmptyLine == Line("text", <<>>, NoTime, NoTime)

\* What a parser sees when it takes the line for text.
LineText(line) == IF line.kind = "text" THEN line.chars ELSE <<line.kind>>

\* The line holds white space only.
IsBlank(line) ==
  line.kind = "text" /\ \A i \in DOMAIN line.chars : line.chars[i] \in Whitespace

RECURSIVE Flatten(_)
Flatten(ss) == IF ss = <<>> THEN <<>> ELSE Head(ss) \o Flatten(Tail(ss))

\* _generate_srt: the items of srt_content, joined by newlines.  The index
\* line holds the number of the segment, counted from 1.
GenerateSrt(segments) ==
  Flatten([i \in DOMAIN segments |->
    <<Line("index", <<ToString(i)>>, NoTime, NoTime),
      Line("timing", <<>>, TimeFields(segments[i].start_time, 1000),
           TimeFields(segments[i].end_time, 1000))>>
      \o TextLines(segments[i].text) \o <<EmptyLine>>])

\* re.split(r'\n\s*\n', content.strip()): the blocks are the runs of lines
\* between runs of blank lines.
RECURSIVE SrtBlocks(_, _)
SrtBlocks(lines, cur) ==
  IF lines = <<>> THEN (IF cur = <<>> THEN <<>> ELSE <<cur>>)
  ELSE IF IsBlank(Head(lines))
    THEN (IF cur = <<>> THEN <<>> ELSE <<cur>>) \o SrtBlocks(Tail(lines), <<>>)
  ELSE SrtBlocks(Tail(lines), Append(cur, Head(lines)))

\* block.strip().split('\n'), as texts: the white space at the start of
\* the first line and at the end of the last one is gone.
StrippedBlock(block) ==
  [k \in DOMAIN block |->
     LET t == LineText(block[k])
         l == IF k = 1 THEN LStrip(t) ELSE t
     IN IF k = Len(block) THEN RStrip(l) ELSE l]

\* _parse_srt
ParseSrt(lines) ==
  LET blocks == SrtBlocks(lines, <<>>)
      good == SelectSeq(blocks, LAMBDA b : Len(b) >= 3 /\ b[2].kind = "timing")
  IN [k \in DOMAIN good |->
        ParsedCue(FieldsToTime(good[k][2].start, 1000),
                  FieldsToTime(good[k][2].end, 1000),
                  JoinLines(SubSeq(StrippedBlock(good[k]), 3, Len(good[k]))))]

\* _generate_vtt
GenerateVtt(segments, track) ==
  <<Line("header", <<>>, NoTime, NoTime)>>
    \o (IF track.language # "" THEN <<Line("header", <<>>, NoTime, NoTime)>> ELSE <<>>)
    \o <<EmptyLine>>
    \o Flatten([i \in DOMAIN segments |->
         <<Line("timing", <<>>, TimeFields(segments[i].start_time, 1000),
                TimeFields(segments[i].end_time, 1000))>>
           \o TextLines(segments[i].text) \o <<EmptyLine>>])

\* cs starts with "<": the position of the ">" that ends the tag
\* <[^>]+>, 0 when there is no such tag at this place.
TagEnd(cs) ==
  LET closers == {j \in 2..Len(cs) : cs[j] = ">"}
  IN IF closers = {} THEN 0
     ELSE LET j == CHOOSE c \in closers : \A d \in closers : c <= d
          IN IF j >= 3 THEN j ELSE 0

\* re.sub(r'<[^>]+>', '', text_line)
RECURSIVE RemoveTags(_)
RemoveTags(cs) ==
  IF cs = <<>> THEN <<>>
  ELSE IF Head(cs) = "<" /\ TagEnd(cs) > 0
    THEN RemoveTags(SubSeq(cs, TagEnd(cs) + 1, Len(cs)))
  ELSE <<Head(cs)>> \o RemoveTags(Tail(cs))

\* The line after the cue text that starts at line i: the first blank line
\* from i on, or the end of the document.
CueEnd(lines, i) ==
  LET blanks == {j \in i..Len(lines) : IsBlank(lines[j])}
  IN IF blanks = {} THEN Len(lines) + 1
     ELSE CHOOSE j \in blanks : \A d \in blanks : j <= d

\* _parse_vtt from line i on.
RECURSIVE ParseVttFrom(_, _)
ParseVttFrom(lines, i) ==
  IF i > Len(lines) THEN <<>>
  ELSE IF lines[i].kind = "timing"
    THEN LET j == CueEnd(lines, i + 1)
             raw == SubSeq(lines, i + 1, j - 1)
             cleaned == [k \in DOMAIN raw |-> RemoveTags(Strip(LineText(raw[k])))]
             text_lines == SelectSeq(cleaned, LAMBDA l : l # <<>>)
         IN (IF text_lines # <<>>
               THEN <<ParsedCue(FieldsToTime(lines[i].start, 1000),
                                FieldsToTime(lines[i].end, 1000),
                                JoinLines(text_lines))>>
               ELSE <<>>)
            \o ParseVttFrom(lines, j + 1)
  ELSE ParseVttFrom(lines, i + 1)

ParseVtt(lines) == ParseVttFrom(lines, 1)

\* segment.text.replace('\n', token)
ReplaceNewlines(text, token) ==
  [i \in DOMAIN text |-> IF text[i] = "\n" THEN token ELSE text[i]]

\* text.replace('\\N', '\n')
RestoreNewlines(text) ==
  [i \in DOMAIN text |-> IF text[i] = "\\N" THEN "\n" ELSE text[i]]

\* The line-break token a generator writes: \N in ASS, \n in SSA.
LineBreakToken(format) == IF format = "ass" THEN "\\N" ELSE "\\n"

\* _generate_ass and _generate_ssa: the script info and styles, the
\* [Events] section and one Dialogue line per segment.
GenerateAss(segments, format) ==
  <<Line("header", <<>>, NoTime, NoTime), Line("events", <<>>, NoTime, NoTime),
    Line("header", <<>>, NoTime, NoTime)>>
    \o [i \in DOMAIN segments |->
          Line("dialogue", ReplaceNewlines(segments[i].text, LineBreakToken(format)),
               TimeFields(segments[i].start_time, 100),
               TimeFields(segments[i].end_time, 100))]

\* _parse_ass, which _parse_ssa calls too: the Dialogue lines after
\* [Events]; the line is stripped, the text is the tenth field.
ParseAss(lines) ==
  LET events == {i \in DOMAIN lines : lines[i].kind = "events"}
      InEvents(i) == \E e \in events : e < i
      dialogues == SelectSeq([i \in DOMAIN lines |->
                                [line |-> lines[i], in_events |-> InEvents(i)]],
                             LAMBDA x : x.in_events /\ x.line.kind = "dialogue")
      TextOf(x) == RestoreNewlines(RStrip(x.line.chars))
      kept == SelectSeq(dialogues, LAMBDA x : Strip(TextOf(x)) # <<>>)
  IN [k \in DOMAIN kept |->
        ParsedCue(FieldsToTime(kept[k].line.start, 100),
                  FieldsToTime(kept[k].line.end, 100),
                  Strip(TextOf(kept[k])))]

\* _generate_json: the "subtitles" list handed to json.dumps.
GenerateJson(segments, track) ==
  [i \in DOMAIN segments |->
     [index |-> i, start_time |-> segments[i].start_time,
      end_time |-> segments[i].end_time,
      duration |-> segments[i].end_time - segments[i].start_time,
      text |-> segments[i].text, confidence |-> segments[i].confidence,
      language |-> IF segments[i].language # "" THEN segments[i].language
                   ELSE track.language]]

\* _parse_json on what json.loads returns.
ParseJson(items) ==
  [i \in DOMAIN items |->
     Segment(items[i].start_time, items[i].end_time, items[i].text,
             items[i].confidence, items[i].language)]

\* converters[format]['generator'](segments, track)
Generate(format, segments, track) ==
  CASE format = "srt" -> GenerateSrt(segments)
    [] format = "vtt" -> GenerateVtt(segments, track)
    [] format \in {"ass", "ssa"} -> GenerateAss(segments, format)
    [] OTHER -> GenerateJson(segments, track)

\* converters[format]['parser'](content)
Parse(format, content) ==
  CASE format = "srt" -> ParseSrt(content)
    [] format = "vtt" -> ParseVtt(content)
    [] format \in {"ass", "ssa"} -> ParseAss(content)
    [] OTHER -> ParseJson(content)

\* convert_subtitle_track(track, format)
CallGenerate ==
  /\ call.fn = "convert"
  /\ ret.kind = "pending"
  /\ ret' = [kind |-> "content",
             content |-> Generate(call.format, call.segments, call.track)]
  /\ UNCHANGED <<call, ovars>>

\* parse_subtitle_file(content, format) on the content just generated
CallParse ==
  /\ call.fn = "convert"
  /\ ret.kind = "content"
  /\ ret' = [kind |-> "segments", content |-> ret.content,
             segments |-> Parse(call.format, ret.content)]
  /\ UNCHANGED <<call, ovars>>

MaxCues == 2

\* Cue texts: one line, two lines, a space inside and at the end, a tag, an
\* empty line inside.
CodecTexts ==
  {<<"a">>, <<"a", "\n", "b">>, <<"a", " ", "b">>, <<"a", " ">>,
   <<"<", "b", ">", "a">>, <<"a", "\n", "\n", "b">>}

\* Start and end of a cue: 0 s to 1.5 s, and 1.2345 s to 1 h 2 min 3.0005 s.
CodecTimes == {<<0, 15000>>, <<12345, 37230005>>}

CodecSegments ==
  {Segment(t[1], t[2], x, c, l) :
     t \in CodecTimes, x \in CodecTexts, c \in {100, 80}, l \in {"", "en"}}

RoundTripFormats == {"srt", "vtt", "ass", "ssa", "json"}

ConvertCalls ==
  [fn : {"convert"}, format : RoundTripFormats,
   segments : UNION {[1..n -> CodecSegments] : n \in 1..MaxCues},
   track : [language : {"", "en"}]]

InitCodec ==
  /\ call \in ConvertCalls
  /\ ret = [kind |-> "pending"]
  /\ IdleOrchestrator

NextCodec == CallGenerate \/ CallParse

SpecCodec == InitCodec /\ [][NextCodec]_vars

\* ------------------------------------------------------ time formatting
\* _seconds_to_ttml_time: f"{seconds:.3f}s" writes the seconds with three
\* decimals, rounded to the nearest millisecond.  TtmlMillis is the set of
\* millisecond counts the text can show: a time half way between two
\* milliseconds is written as the one the binary value of the float is
\* nearer to, which is either of the two.
TtmlMillis(t) ==
  LET unit == TicksPerSecond \div 1000
      low == t \div unit
      rest == t % unit
  IN IF 2 * rest < unit THEN {low}
     ELSE IF 2 * rest > unit THEN {low + 1}
     ELSE {low, low + 1}

\* The text of ms milliseconds in seconds with three decimals.
TtmlFields(ms) == [h |-> 0, m |-> 0, s |-> ms \div 1000, f |-> ms % 1000]

\* The sub-second units of a format's time notation.
TimeUnits(format) == IF format \in {"ass", "ssa"} THEN 100 ELSE 1000

\* The texts a format's seconds-to-time conversion can return for t.
SecondsToTime(format, t) ==
  IF format \in {"ttml", "dfxp"}
    THEN {TtmlFields(ms) : ms \in TtmlMillis(t)}
    ELSE {TimeFields(t, TimeUnits(format))}

\* _seconds_to_srt_time, _seconds_to_vtt_time, _seconds_to_ass_time,
\* _seconds_to_ttml_time, as the generators of the registry call them.
CallSecondsToTime ==
  /\ call.fn = "seconds_to_time"
  /\ ret.kind = "pending"
  /\ \E x \in SecondsToTime(call.format, call.seconds) :
       ret' = [kind |-> "time", fields |-> x]
  /\ UNCHANGED <<call, ovars>>

\* _srt_time_to_seconds, _vtt_time_to_seconds, _ass_time_to_seconds,
\* _ttml_time_to_seconds on the text just written.
CallTimeToSeconds ==
  /\ call.fn = "seconds_to_time"
  /\ ret.kind = "time"
  /\ ret' = [kind |-> "seconds", fields |-> ret.fields,
             seconds |-> FieldsToTime(ret.fields, TimeUnits(call.format))]
  /\ UNCHANGED <<call, ovars>>

TimedFormats == {"srt", "vtt", "ass", "ssa", "ttml", "dfxp"}

\* Whole seconds and sub-second parts (in ticks) of the times converted:
\* 1.0006 s is 1 s and 6 ticks.
WholeSeconds == {0, 1, 59, 3723}

SubSecondTicks == {0, 4, 5, 6, 99, 100, 2345, 9994, 9995, 9996}

TimeCalls ==
  [fn : {"seconds_to_time"}, format : TimedFormats,
   seconds : {s * TicksPerSecond + f : s \in WholeSeconds, f \in SubSecondTicks}]

InitTime ==
  /\ call \in TimeCalls
  /\ ret = [kind |-> "pending"]
  /\ IdleOrchestrator

NextTime == CallSecondsToTime \/ CallTimeToSeconds

SpecTime == InitTime /\ [][NextTime]_vars

\* ------------------------------------------------ parsing foreign content
\* A document handed to parse_subtitle_file, by what each parser's first
\* steps make of it:
\*   json   what json.loads returns: "invalid" (it raises), "array" (a
\*          list), "object" (a dict without cues), "bare_items" (a dict
\*          whose "subtitles" items have no start_time)
\*   xml    what ET.fromstring returns: "invalid" (it raises), "no_cues"
\*          (a tree without subtitle and p elements), "bare_cues" (subtitle
\*          elements without start and end attributes)
\*   rows   the rows csv.reader yields, header first: the number of columns
\*          and whether columns 2 and 3 are numbers
\*   lines  content.split('\n')
Document(json, xml, rows, lines) ==
  [json |-> json, xml |-> xml, rows |-> rows, lines |-> lines]

TextLine(chars) == Line("text", chars, NoTime, NoTime)

Row(cols, numeric) == [cols |-> cols, numeric |-> numeric]

\* A line such as "0::1 --> 0::2": the timing pattern of _parse_srt and of
\* _parse_vtt matches it, and int('') raises in the time conversion.
BadTimingLine == Line("bad_timing", <<>>, NoTime, NoTime)

\* A line such as "Dialogue: 0,a:b:c,0:00:01.00,Default,,0,0,0,,hi": ten
\* fields, and int('a') raises in _ass_time_to_seconds.
BadDialogueLine == Line("bad_dialogue", <<"a">>, NoTime, NoTime)

EventsLine == Line("events", <<>>, NoTime, NoTime)

\* Documents without a single well-formed cue in any format.
MalformedDocuments ==
  { \* the empty string
    Document("invalid", "invalid", <<>>, <<TextLine(<<>>)>>),
    \* hello
    Document("invalid", "invalid", <<Row(1, FALSE)>>, <<TextLine(<<"a">>)>>),
    \* {}
    Document("object", "invalid", <<Row(1, FALSE)>>, <<TextLine(<<"{", "}">>)>>),
    \* []
    Document("array", "invalid", <<Row(1, FALSE)>>, <<TextLine(<<"[", "]">>)>>),
    \* {"subtitles": [{}]}
    Document("bare_items", "invalid", <<Row(1, FALSE)>>, <<TextLine(<<"{", "[", "]", "}">>)>>),
    \* <a/>
    Document("invalid", "no_cues", <<Row(1, FALSE)>>, <<TextLine(<<"<", "a", ">">>)>>),
    \* <subtitles><subtitle>a</subtitle></subtitles>
    Document("invalid", "bare_cues", <<Row(1, FALSE)>>, <<TextLine(<<"<", "a", ">", "a">>)>>),
    \* <p
    Document("invalid", "invalid", <<Row(1, FALSE)>>, <<TextLine(<<"<", "a">>)>>),
    \* a header and a row of two columns
    Document("invalid", "invalid", <<Row(5, FALSE), Row(2, TRUE)>>,
             <<TextLine(<<"a">>), TextLine(<<"b">>)>>),
    \* a header and a row of five words
    Document("invalid", "invalid", <<Row(5, FALSE), Row(5, FALSE)>>,
             <<TextLine(<<"a">>), TextLine(<<"b">>)>>),
    \* an index, a timing line without numbers, a text
    Document("invalid", "invalid", <<Row(1, FALSE), Row(1, FALSE), Row(1, FALSE)>>,
             <<TextLine(<<"a">>), TextLine(<<"b">>), TextLine(<<"a">>)>>),
    \* an index, "0::1 --> 0::2", a text
    Document("invalid", "invalid", <<Row(1, FALSE), Row(1, FALSE), Row(1, FALSE)>>,
             <<TextLine(<<"a">>), BadTimingLine, TextLine(<<"a">>)>>),
    \* a Dialogue line before any [Events] section
    Document("invalid", "invalid", <<Row(10, FALSE)>>, <<BadDialogueLine>>),
    \* [Events] and a Dialogue line whose start is a:b:c
    Document("invalid", "invalid", <<Row(1, FALSE), Row(10, FALSE)>>,
             <<EventsLine, BadDialogueLine>>) }

Raised(error) == [kind |-> "raised", error |-> error]

Parsed(segments) == [kind |-> "segments", segments |-> segments]

\* _parse_srt: the time conversion raises on the first block of three or
\* more lines whose second line matches the timing pattern without being a
\* time.
ParseSrtFile(doc) ==
  IF \E k \in DOMAIN SrtBlocks(doc.lines, <<>>) :
       LET b == SrtBlocks(doc.lines, <<>>)[k]
       IN Len(b) >= 3 /\ b[2].kind = "bad_timing"
    THEN Raised("ValueError")
    ELSE Parsed(ParseSrt(doc.lines))

\* _parse_vtt: the times are converted as soon as the pattern matches.
ParseVttFile(doc) ==
  IF \E i \in DOMAIN doc.lines : doc.lines[i].kind = "bad_timing"
    THEN Raised("ValueError")
    ELSE Parsed(ParseVtt(doc.lines))

\* _parse_ass and _parse_ssa
ParseAssFile(doc) ==
  IF \E i \in DOMAIN doc.lines :
       /\ doc.lines[i].kind = "bad_dialogue"
       /\ \E e \in 1..(i - 1) : doc.lines[e].kind = "events"
    THEN Raised("ValueError")
    ELSE Parsed(ParseAss(doc.lines))

\* _parse_json: json.loads, data.get("subtitles", []), item["start_time"]
ParseJsonFile(doc) ==
  CASE doc.json = "invalid" -> Raised("JSONDecodeError")
    [] doc.json = "array" -> Raised("AttributeError")
    [] doc.json = "bare_items" -> Raised("KeyError")
    [] OTHER -> Parsed(<<>>)

\* _parse_csv: the header is skipped; float(row[1]) on every row of five or
\* more columns.
ParseCsvFile(doc) ==
  IF \E i \in 2..Len(doc.rows) : doc.rows[i].cols >= 5 /\ ~doc.rows[i].numeric
    THEN Raised("ValueError")
    ELSE Parsed(<<>>)

\* _parse_xml: ET.fromstring, float(subtitle_elem.get('start'))
ParseXmlFile(doc) ==
  CASE doc.xml = "invalid" -> Raised("ParseError")
    [] doc.xml = "bare_cues" -> Raised("TypeError")
    [] OTHER -> Parsed(<<>>)

\* _parse_ttml and _parse_dfxp: every exception is caught and [] returned.
ParseTtmlFile(doc) == Parsed(<<>>)

ParseableFormats == {"srt", "vtt", "ass", "ssa", "json", "csv", "xml", "ttml", "dfxp"}

\* parse_subtitle_file(content, source_format): the parser's exception is
\* logged and raised again.
ParseSubtitleFile(format, doc) ==
  CASE format = "srt" -> ParseSrtFile(doc)
    [] format = "vtt" -> ParseVttFile(doc)
    [] format \in {"ass", "ssa"} -> ParseAssFile(doc)
    [] format = "json" -> ParseJsonFile(doc)
    [] format = "csv" -> ParseCsvFile(doc)
    [] format = "xml" -> ParseXmlFile(doc)
    [] OTHER -> ParseTtmlFile(doc)

CallParseSubtitleFile ==
  /\ call.fn = "parse_subtitle_file"
  /\ ret.kind = "pending"
  /\ ret' = ParseSubtitleFile(call.format, call.content)
  /\ UNCHANGED <<call, ovars>>

ParseCalls ==
  [fn : {"parse_subtitle_file"}, format : ParseableFormats,
   content : MalformedDocuments]

InitParse ==
  /\ call \in ParseCalls
  /\ ret = [kind |-> "pending"]
  /\ IdleOrchestrator

NextParse == CallParseSubtitleFile

SpecParse == InitParse /\ [][NextParse]_vars

\* ------------------------------------------------- converting a document
\* A WebVTT document as a caller reads it from a file: the header, an
\* optional Language line, an empty line, the cues, each followed by an empty
\* line, and the newline that ends the file.
VttDocument(segments, language) ==
  GenerateVtt(segments, [language |-> language]) \o <<EmptyLine>>

HelloWorld == <<"H", "e", "l", "l", "o", " ", "w", "o", "r", "l", "d">>

DocumentTexts == {HelloWorld, <<"a">>, <<"a", "\n", "b">>}

\* Cue times of the documents, whole milliseconds: 1 s to 3 s, 0 s to
\* 1.5 s, 3.5 s to 1 h 2 min 3 s.
DocumentTimes == {<<10000, 30000>>, <<0, 15000>>, <<35000, 37230000>>}

DocumentCues ==
  {ParsedCue(t[1], t[2], x) : t \in DocumentTimes, x \in DocumentTexts}

VttDocuments ==
  {VttDocument(cues, l) :
     cues \in UNION {[1..n -> DocumentCues] : n \in 1..MaxCues}, l \in {"", "en"}}

\* parse_subtitle_file(content, source_format)
CallParseSource ==
  /\ call.fn = "convert_file"
  /\ ret.kind = "pending"
  /\ ret' = [kind |-> "parsed", segments |-> Parse(call.source, call.content)]
  /\ UNCHANGED <<call, ovars>>

\* convert_segments(segments, target_format): the temporary track has the
\* language 'unknown'.
CallConvertSegments ==
  /\ call.fn = "convert_file"
  /\ ret.kind = "parsed"
  /\ ret' = [kind |-> "converted", segments |-> ret.segments,
             content |-> Generate(call.target, ret.segments, [language |-> "unknown"])]
  /\ UNCHANGED <<call, ovars>>

ConvertFileCalls ==
  [fn : {"convert_file"}, source : {"vtt"}, target : RoundTripFormats,
   content : VttDocuments]

InitConvert ==
  /\ call \in ConvertFileCalls
  /\ ret = [kind |-> "pending"]
  /\ IdleOrchestrator

NextConvert == CallParseSource \/ CallConvertSegments

SpecConvert == InitConvert /\ [][NextConvert]_vars

\* ------------------------------------------------------- post-processing
\* AISubtitleGenerator._post_process_segments and its helpers.  A text is
\* here the sequence of its words, spaces and sentence terminators: a word
\* of n letters, one space, one of the characters . ! ?
Word(n) == [k |-> "word", n |-> n]

Space == [k |-> "space", n |-> 1]

Stop == [k |-> "stop", n |-> 1]

MAX_SUBTITLE_LENGTH == 100

MIN_SUBTITLE_DURATION == TicksPerSecond \div 2

\* The gap below which two segments are merged: 1.0 seconds.
MergeGap == TicksPerSecond

\* The number of words above which a long text is split.
SplitWordLimit == 10

\* len(text)
RECURSIVE TextLen(_)
TextLen(text) == IF text = <<>> THEN 0 ELSE Head(text).n + TextLen(Tail(text))

\* segment.duration()
Duration(seg) == seg.end_time - seg.start_time

\* text.split(): the runs of characters between white space.
RECURSIVE SplitWords(_, _)
SplitWords(text, cur) ==
  IF text = <<>> THEN (IF cur = <<>> THEN <<>> ELSE <<cur>>)
  ELSE IF Head(text).k = "space"
    THEN (IF cur = <<>> THEN <<>> ELSE <<cur>>) \o SplitWords(Tail(text), <<>>)
  ELSE SplitWords(Tail(text), Append(cur, Head(text)))

\* ' '.join(words)
RECURSIVE JoinWords(_)
JoinWords(words) ==
  IF words = <<>> THEN <<>>
  ELSE IF Len(words) = 1 THEN words[1]
  ELSE words[1] \o <<Space>> \o JoinWords(Tail(words))

\* re.split(r'[.!?]+', text): the pieces between runs of terminators, the
\* empty pieces before a leading and after a trailing terminator included.
RECURSIVE SplitSentences(_, _, _)
SplitSentences(text, cur, in_stop) ==
  IF text = <<>> THEN <<cur>>
  ELSE IF Head(text).k = "stop"
    THEN IF in_stop THEN SplitSentences(Tail(text), cur, TRUE)
         ELSE <<cur>> \o SplitSentences(Tail(text), <<>>, TRUE)
  ELSE SplitSentences(Tail(text), Append(cur, Head(text)), FALSE)

\* sentence.strip()
RECURSIVE StripSpaces(_)
StripSpaces(text) ==
  IF text # <<>> /\ Head(text).k = "space" THEN StripSpaces(Tail(text))
  ELSE IF text # <<>> /\ text[Len(text)].k = "space"
    THEN StripSpaces(SubSeq(text, 1, Len(text) - 1))
  ELSE text

SplitLongSegmentRestart(seg) ==
  LET words == SplitWords(seg.text, <<>>)
      sentences == SplitSentences(seg.text, <<>>, FALSE)
      mid_word == Len(words) \div 2
      mid_time == seg.start_time + Duration(seg) \div 2
      sentence_duration == Duration(seg) \div Len(sentences)
      stripped == [i \in DOMAIN sentences |-> StripSpaces(sentences[i])]
      kept == SelectSeq(stripped, LAMBDA x : x # <<>>)
  IN IF Len(words) <= SplitWordLimit THEN <<seg>>
     ELSE IF Len(sentences) <= 1
       THEN <<Segment(seg.start_time, mid_time,
                      JoinWords(SubSeq(words, 1, mid_word)),
                      seg.confidence, seg.language),
              Segment(mid_time, seg.end_time,
                      JoinWords(SubSeq(words, mid_word + 1, Len(words))),
                      seg.confidence, seg.language)>>
     ELSE [j \in DOMAIN kept |->
             Segment(seg.start_time,
                     seg.start_time + sentence_duration,
                     kept[j], seg.confidence, seg.language)]

\* _split_long_segment
SplitLongSegment(seg) ==
  LET words == SplitWords(seg.text, <<>>)
      sentences == SplitSentences(seg.text, <<>>, FALSE)
      mid_word == Len(words) \div 2
      mid_time == seg.start_time + Duration(seg) \div 2
      sentence_duration == Duration(seg) \div Len(sentences)
      stripped == [i \in DOMAIN sentences |-> StripSpaces(sentences[i])]
      kept == SelectSeq(stripped, LAMBDA x : x # <<>>)
  IN IF Len(words) <= SplitWordLimit THEN <<seg>>
     ELSE IF Len(sentences) <= 1
       THEN <<Segment(seg.start_time, mid_time,
                      JoinWords(SubSeq(words, 1, mid_word)),
                      seg.confidence, seg.language),
              Segment(mid_time, seg.end_time,
                      JoinWords(SubSeq(words, mid_word + 1, Len(words))),
                      seg.confidence, seg.language)>>
     ELSE [j \in DOMAIN kept |->
             Segment(seg.start_time + (j - 1) * sentence_duration,
                     seg.start_time + j * sentence_duration,
                     kept[j], seg.confidence, seg.language)]

FirstPassBranchStrict(seg) ==
  IF TextLen(seg.text) > MAX_SUBTITLE_LENGTH THEN "split"
  ELSE IF Duration(seg) > MIN_SUBTITLE_DURATION THEN "keep"
  ELSE "drop"

\* The branch the first loop of _post_process_segments takes for a segment.
FirstPassBranch(seg) ==
  IF TextLen(seg.text) > MAX_SUBTITLE_LENGTH THEN "split"
  ELSE IF Duration(seg) >= MIN_SUBTITLE_DURATION THEN "keep"
  ELSE "drop"

\* What that branch adds to processed.
FirstPassOutput(seg) ==
  CASE FirstPassBranch(seg) = "split" -> SplitLongSegment(seg)
    [] FirstPassBranch(seg) = "keep" -> <<seg>>
    [] OTHER -> <<>>

\* processed after the first loop
RECURSIVE FirstPass(_)
FirstPass(segments) ==
  IF segments = <<>> THEN <<>>
  ELSE FirstPassOutput(Head(segments)) \o FirstPass(Tail(segments))

\* The test of _merge_short_segments on current and next_segment.
ShouldMerge(current, next_segment) ==
  /\ Duration(current) < MIN_SUBTITLE_DURATION * 2
  /\ next_segment.start_time - current.end_time < MergeGap
  /\ TextLen(current.text) + TextLen(next_segment.text) < MAX_SUBTITLE_LENGTH

\* The segment that replaces current when the two are merged.
MergedSegment(current, next_segment) ==
  Segment(current.start_time, next_segment.end_time,
          current.text \o <<Space>> \o next_segment.text,
          (current.confidence + next_segment.confidence) \div 2,
          current.language)

\* The loop of _merge_short_segments from current on.
RECURSIVE MergeFrom(_, _)
MergeFrom(current, rest) ==
  IF rest = <<>> THEN <<current>>
  ELSE IF ShouldMerge(current, Head(rest))
    THEN MergeFrom(MergedSegment(current, Head(rest)), Tail(rest))
  ELSE <<current>> \o MergeFrom(Head(rest), Tail(rest))

\* _merge_short_segments
MergeShortSegments(segments) ==
  IF Len(segments) <= 1 THEN segments
  ELSE MergeFrom(Head(segments), Tail(segments))

\* _post_process_segments
PostProcessSegments(segments) ==
  IF segments = <<>> THEN segments
  ELSE MergeShortSegments(FirstPass(segments))

\* _post_process_segments(segments).  input is the list the caller passed,
\* as it is when the call returns; branches, outputs and processed are what
\* the first loop did for each segment and in all, segments is the list
\* returned.
CallPostProcessSegments ==
  /\ call.fn = "post_process_segments"
  /\ ret.kind = "pending"
  /\ ret' = [kind |-> "processed",
             input |-> call.segments,
             branches |-> [i \in DOMAIN call.segments |-> FirstPassBranch(call.segments[i])],
             outputs |-> [i \in DOMAIN call.segments |-> FirstPassOutput(call.segments[i])],
             processed |-> FirstPass(call.segments),
             segments |-> PostProcessSegments(call.segments)]
  /\ UNCHANGED <<call, ovars>>

\* _merge_short_segments(segments)
CallMergeShortSegments ==
  /\ call.fn = "merge_short_segments"
  /\ ret.kind = "pending"
  /\ ret' = [kind |-> "merged", segments |-> MergeShortSegments(call.segments)]
  /\ UNCHANGED <<call, ovars>>

\* _split_long_segment(segment)
CallSplitLongSegment ==
  /\ call.fn = "split_long_segment"
  /\ ret.kind = "pending"
  /\ ret' = [kind |-> "split", segments |-> SplitLongSegment(call.segment)]
  /\ UNCHANGED <<call, ovars>>

MaxPost == 2

MaxChain == 3

\* k words of n letters with single spaces between them.
RECURSIVE WordsText(_, _)
WordsText(k, n) ==
  IF k = 1 THEN <<Word(n)>> ELSE <<Word(n), Space>> \o WordsText(k - 1, n)

\* Two words, 9 characters.
ShortText == WordsText(2, 4)

\* Two words, 50 characters.
HalfText == <<Word(24), Space, Word(25)>>

\* Eleven words, exactly 100 characters.
MaxText == WordsText(10, 8) \o <<Space, Word(10)>>

\* Eleven words without a terminator, 101 characters.
LongWordsText == WordsText(10, 8) \o <<Space, Word(11)>>

\* Two words, 101 characters.
LongFewText == <<Word(50), Space, Word(50)>>

\* Three sentences of four words: "S. S. S", 109 characters.
LongSentencesText ==
  WordsText(4, 8) \o <<Stop, Space>> \o WordsText(4, 8) \o <<Stop, Space>>
    \o WordsText(4, 8)

\* The same ending with a terminator: "S. S. S."
LongSentencesEndText == LongSentencesText \o <<Stop>>

\* The same with terminators in a row: "S.. S! S"
LongSentencesRunText ==
  WordsText(4, 8) \o <<Stop, Stop, Space>> \o WordsText(4, 8) \o <<Stop, Space>>
    \o WordsText(4, 8)

\* A segment of the input by the time since the end of the one before it,
\* its duration, its text and its confidence.
PostItems(gaps, durations, texts, confidences) ==
  [gap : gaps, duration : durations, text : texts, confidence : confidences]

\* The segments of a sequence of items, the first gap counted from 0.
RECURSIVE Timeline(_, _)
Timeline(items, from) ==
  IF items = <<>> THEN <<>>
  ELSE LET start == from + Head(items).gap
           end == start + Head(items).duration
       IN <<Segment(start, end, Head(items).text, Head(items).confidence, "en")>>
            \o Timeline(Tail(items), end)

Timelines(items, longest) ==
  {Timeline(q, 0) : q \in UNION {[1..n -> items] : n \in 1..longest}}

\* Whisper segments handed to the post-processor: 0.4 s, 0.5 s and 6 s long,
\* back to back or one second apart.
PostProcessCalls ==
  [fn : {"post_process_segments"},
   segments : Timelines(PostItems({0, TicksPerSecond},
                                  {4000, MIN_SUBTITLE_DURATION, 60000},
                                  {ShortText, MaxText, LongWordsText,
                                   LongSentencesEndText, LongFewText},
                                  {100}),
                        MaxPost)]

\* Segments handed to the merge pass: 0.3 s, 0.6 s and 1 s long.
MergeCalls ==
  [fn : {"merge_short_segments"},
   segments : Timelines(PostItems({0, MergeGap}, {3000, 6000, 2 * MIN_SUBTITLE_DURATION},
                                  {ShortText, HalfText}, {100, 60}),
                        MaxChain)]

\* Segments handed to the split: 1.2 s and 6 s long, so that the shares of
\* two, three and four pieces are whole ticks.
SplitCalls ==
  [fn : {"split_long_segment"},
   segment : {Segment(s, s + d, x, 100, "en") :
                s \in {0, TicksPerSecond}, d \in {12000, 60000},
                x \in {ShortText, MaxText, LongWordsText, LongFewText,
                       LongSentencesText, LongSentencesEndText,
                       LongSentencesRunText}}]

InitPost ==
  /\ call \in PostProcessCalls \cup MergeCalls \cup SplitCalls
  /\ ret = [kind |-> "pending"]
  /\ IdleOrchestrator

NextPost ==
  \/ CallPostProcessSegments
  \/ CallMergeShortSegments
  \/ CallSplitLongSegment

SpecPost == InitPost /\ [][NextPost]_vars

\* -------------------------------------------------------------- filenames
\* Names are sequences of characters.
IllegalChars == {"<", ">", ":", "\"", "/", "\\", "|", "?", "*"}

\* The length _sanitize_filename cuts a name to.
MaxNameLength == 100

\* _sanitize_filename
SanitizeFilename(name) ==
  LET replaced == [i \in DOMAIN name |->
                     IF name[i] \in IllegalChars THEN "_" ELSE name[i]]
      cut == IF Len(replaced) > MaxNameLength
               THEN SubSeq(replaced, 1, MaxNameLength)
               ELSE replaced
  IN Strip(cut)

\* str.replace(' ', '_')
UnderscoreSpaces(name) ==
  [i \in DOMAIN name |-> IF name[i] = " " THEN "_" ELSE name[i]]

\* A template is a sequence of literal characters and {placeholders}.
Lit(c) == [k |-> "lit", v |-> c]

Field(name) == [k |-> "field", v |-> name]

\* The keyword arguments _generate_filename passes to template.format.
TemplateFields ==
  {"title", "language", "language_name", "format", "platform", "uploader",
   "id", "quality", "source"}

FieldValue(name, video_info, track, format_type) ==
  CASE name = "title" -> SanitizeFilename(video_info.title)
    [] name = "language" -> track.language
    [] name = "language_name" -> UnderscoreSpaces(track.language_name)
    [] name = "format" -> format_type
    [] name = "platform" -> video_info.platform
    [] name = "uploader" -> SanitizeFilename(video_info.uploader)
    [] name = "id" -> video_info.id
    [] name = "quality" -> track.quality
    [] OTHER -> track.source

\* template.format(...)
RECURSIVE FormatTemplate(_, _, _, _)
FormatTemplate(template, video_info, track, format_type) ==
  IF template = <<>> THEN <<>>
  ELSE (IF Head(template).k = "lit" THEN <<Head(template).v>>
        ELSE FieldValue(Head(template).v, video_info, track, format_type))
       \o FormatTemplate(Tail(template), video_info, track, format_type)

\* _generate_filename: a placeholder that is not among the keyword arguments
\* makes format raise, and the name falls back to title_language.format.
GenerateFilename(video_info, track, format_type, template) ==
  IF \A i \in DOMAIN template :
       template[i].k = "field" => template[i].v \in TemplateFields
    THEN FormatTemplate(template, video_info, track, format_type)
    ELSE SanitizeFilename(video_info.title) \o <<"_">> \o track.language
           \o <<".">> \o format_type

\* filename = self._generate_filename(video_info, track, format_type,
\* request.filename_template), the name the file is written under.
CallGenerateFilename ==
  /\ call.fn = "generate_filename"
  /\ ret.kind = "pending"
  /\ ret' = [kind |-> "filename",
             filename |-> GenerateFilename(call.video_info, call.track,
                                           call.format_type, call.template)]
  /\ UNCHANGED <<call, ovars>>

\* n times the character c
Repeated(c, n) == [i \in 1..n |-> c]

Titles ==
  {<<"a", " ", "b">>, <<"a", "/", "b", ":", "c">>, <<" ", "a", "?", " ">>,
   Repeated("a", MaxNameLength - 10), Repeated("a", MaxNameLength),
   Repeated("a", MaxNameLength) \o <<"/", "b">>}

Uploaders == {<<"u">>, <<"u", "|", "v">>}

\* en with English, and a Bilibili subtitle entry whose lan_doc is "a/b c".
TrackNames ==
  {[language |-> <<"e", "n">>, language_name |-> <<"E", "n", "g", "l", "i", "s", "h">>,
    source |-> <<"m", "a", "n", "u", "a", "l">>],
   [language |-> <<"z", "h">>, language_name |-> <<"a", "/", "b", " ", "c">>,
    source |-> <<"b", "i", "l", "i", "b", "i", "l", "i">>]}

\* {title}_{language}.{format}, the default of DownloadRequest
DefaultTemplate ==
  <<Field("title"), Lit("_"), Field("language"), Lit("."), Field("format")>>

Templates ==
  {DefaultTemplate,
   \* {uploader}/{title}.{format}
   <<Field("uploader"), Lit("/"), Field("title"), Lit("."), Field("format")>>,
   \* {title}_{language_name}_{source}.{format}
   <<Field("title"), Lit("_"), Field("language_name"), Lit("_"), Field("source"),
     Lit("."), Field("format")>>,
   \* {id}_{platform}_{quality}.{format}
   <<Field("id"), Lit("_"), Field("platform"), Lit("_"), Field("quality"),
     Lit("."), Field("format")>>,
   \* {title}_{date}.{format}
   <<Field("title"), Lit("_"), Field("date"), Lit("."), Field("format")>>}

FilenameCalls ==
  [fn : {"generate_filename"},
   video_info : [title : Titles, uploader : Uploaders,
                 platform : {<<"y", "t">>}, id : {<<"i", "d", "1">>}],
   track : {[language |-> t.language, language_name |-> t.language_name,
             source |-> t.source, quality |-> <<"h", "i", "g", "h">>] :
              t \in TrackNames},
   format_type : {<<"s", "r", "t">>, <<"v", "t", "t">>},
   template : Templates]

InitName ==
  /\ call \in FilenameCalls
  /\ ret = [kind |-> "pending"]
  /\ IdleOrchestrator

NextName == CallGenerateFilename

SpecName == InitName /\ [][NextName]_vars

\* ------------------------------------------------------------------ claims
Returned(r) == task[r].outcome.kind = "result"

FailedOutcomes == {"unavailable", "batch_failed", "error"}

\* C1: whatever stage fails, download_subtitles returns a DownloadResult and
\* never lets the exception out; a request that has started and is not
\* cancelled can always take its next step until it ends Done or Failed; a
\* returned result with success = false has a non-empty errors list.
C1_StructuredResult ==
  \A r \in Reqs :
    /\ task[r].pc # "Raised"
    /\ task[r].outcome.kind # "raised"
    /\ (task[r].pc \in {"Done", "Failed"}) <=> Returned(r)
    /\ Returned(r) =>
         /\ (task[r].pc = "Done") <=> task[r].outcome.success
         /\ ~task[r].outcome.success => task[r].outcome.errors # <<>>
    /\ (Inside(r) /\ batchpc = "running") => ENABLED RequestStep(r)

\* A stage failed after adapter selection and the request ended Failed with
\* that error in its result.
C1_Witness ==
  \E r \in Reqs :
    /\ task[r].pc = "Failed"
    /\ Returned(r)
    /\ task[r].outcome.errors = <<"subtitle extraction failed">>

\* C2: extraction returned zero tracks and the AI fallback is disabled: the
\* result has success = false, a non-empty errors list and no downloaded
\* file, and the conversion loop attempted no (track, format) pair.
C2_NoTracksNoFallback ==
  \A r \in Reqs :
    (Returned(r) /\ task[r].found = 0 /\ ~requests[r].enable_ai_fallback) =>
      /\ ~task[r].outcome.success
      /\ task[r].outcome.errors # <<>>
      /\ task[r].outcome.downloaded_files = <<>>
      /\ task[r].pairs = <<>>
      /\ "convert" \notin Range(task[r].log)

C2_Witness ==
  \E r \in Reqs :
    /\ Returned(r)
    /\ task[r].found = 0
    /\ ~requests[r].enable_ai_fallback
    /\ task[r].outcome.errors = <<NoSubtitlesError>>

\* C3: in every returned DownloadResult, of download_subtitles and of
\* batch_download, success holds exactly when subtitle_tracks is non-empty,
\* whatever the number of files saved.
C3_SuccessIffTracks ==
  /\ \A r \in Reqs :
       Returned(r) =>
         (task[r].outcome.success <=> task[r].outcome.subtitle_tracks # <<>>)
  /\ \A i \in DOMAIN results :
       results[i].success <=> results[i].subtitle_tracks # <<>>

\* A successful result with tracks whose every (track, format) pair failed.
C3_Witness ==
  \E r \in Reqs :
    /\ Returned(r)
    /\ task[r].outcome.success
    /\ task[r].outcome.subtitle_tracks # <<>>
    /\ task[r].pairs # <<>>
    /\ task[r].outcome.downloaded_files = <<>>

C5_FailedTranslationKeepsOriginal ==
  \A r \in Reqs :
    (Returned(r) /\ task[r].outcome.success) =>
      \A i \in DOMAIN task[r].xl :
        task[r].xl[i] \in FailedOutcomes =>
          task[r].outcome.subtitle_tracks[i] = task[r].pre[i]

\* C6: when the conversion stage ran, every (track, format) pair was
\* attempted; the path of a pair that succeeded is in downloaded_files and
\* the path of a pair that failed is not.
C6_FailedPairSkipped ==
  \A r \in Reqs :
    (Returned(r) /\ task[r].pairs # <<>>) =>
      /\ Len(task[r].pairs) = Len(task[r].tracks) * Len(requests[r].formats)
      /\ \A k \in DOMAIN task[r].pairs :
           task[r].pairs[k].ok <=>
             task[r].pairs[k].path \in Range(task[r].outcome.downloaded_files)

\* C7: at most max_concurrent requests of a batch are inside
\* download_subtitles at any moment.
C7_ConcurrencyCap ==
  /\ Cardinality({r \in Reqs : Inside(r)}) <= max_concurrent
  /\ sem >= 0

\* The cap binds: max_concurrent requests are inside and another one waits.
C7_Witness ==
  /\ Cardinality({r \in Reqs : Inside(r)}) = max_concurrent
  /\ \E r \in Reqs : task[r].pc = "queued"

\* C8: batch_download returns one result per request, result i being the
\* DownloadResult of request i unchanged; a request that failed has a failed
\* result with its error, every request has run to its end, and until the
\* batch returns some request can step or the batch can return.
C8_BatchResults ==
  /\ batchpc = "returned" =>
       /\ Len(results) = Len(requests)
       /\ \A i \in Reqs :
            /\ task[i].pc \in {"Done", "Failed"}
            /\ results[i].kind = "result"
            /\ results[i].request = i
            /\ results[i] = task[i].outcome
            /\ task[i].pc = "Failed" =>
                 (~results[i].success /\ results[i].errors # <<>>)
            /\ task[i].pc = "Done" => results[i].success
  /\ batchpc = "running" =>
       ENABLED ((\E r \in Reqs : Begin(r) \/ RequestStep(r)) \/ BatchReturn)

\* A returned batch with a failed and a successful request.
C8_Witness ==
  /\ batchpc = "returned"
  /\ \E i, j \in Reqs : ~results[i].success /\ results[j].success

\* C9: no two model.transcribe calls on the cached model of one name are in
\* flight at the same time.
C9_TranscribeSerialized ==
  \A r, q \in Reqs :
    (r # q /\ task[r].pc = "transcribing" /\ task[q].pc = "transcribing") =>
      task[r].model # task[q].model

StageRank(s) ==
  CASE s = "select" -> 1
    [] s = "info" -> 2
    [] s = "extract" -> 3
    [] s = "ai_fallback" -> 4
    [] s = "translate" -> 5
    [] s = "convert" -> 6
    [] OTHER -> 7

\* C10: the stages a request has entered are in the order select, info,
\* extract, ai_fallback, translate, convert, Done or Failed, the first three
\* never skipped; the AI fallback runs only after extraction returned zero
\* tracks with the fallback enabled; translation runs only after extraction
\* returned and outside the AI fallback; (track, format) pairs are attempted
\* only once every track went through translation; nothing follows Done or
\* Failed.
C10_StageOrder ==
  \A r \in Reqs :
    LET l == task[r].log
        AIStage == task[r].pc \in {"audio", "loading", "transcribing", "sr"}
    IN /\ \A i, j \in DOMAIN l : i < j => StageRank(l[i]) < StageRank(l[j])
       /\ \A i \in DOMAIN l : StageRank(l[i]) <= 3 => StageRank(l[i]) = i
       /\ \A i \in DOMAIN l : l[i] \in {"Done", "Failed"} =>
            (i = Len(l) /\ task[r].pc = l[i])
       /\ ("ai_fallback" \in Range(l) \/ AIStage) =>
            (task[r].found = 0 /\ requests[r].enable_ai_fallback)
       /\ AIStage => l[Len(l)] = "ai_fallback"
       /\ ("translate" \in Range(l) \/ task[r].pc = "translate") =>
            (task[r].found >= 0 /\ requests[r].enable_translation /\ ~AIStage)
       /\ task[r].pc = "translate" => l[Len(l)] = "translate"
       /\ task[r].pairs # <<>> =>
            /\ task[r].pc \in {"Done", "Failed"}
            /\ "convert" \in Range(l)
            /\ "translate" \in Range(l) =>
                 (Len(task[r].xl) = Len(task[r].pre) /\ task[r].tracks = task[r].translated)

\* A request that went through every stage.
C10_Witness ==
  \E r \in Reqs :
    task[r].log = <<"select", "info", "extract", "ai_fallback", "translate",
                    "convert", "Done">>

\* C11: every track of a returned DownloadResult has at least one segment; a
\* track without segments (a transcription that post-processing left empty,
\* a translated track) is not in subtitle_tracks.
C11_TracksHaveSegments ==
  \A r \in Reqs :
    Returned(r) =>
      \A i \in DOMAIN task[r].outcome.subtitle_tracks :
        task[r].outcome.subtitle_tracks[i].nseg > 0

\* C12: a request that failed because extract_video_info or extract_subtitles
\* raised has called that method MAX_RETRIES times before giving up.
C12_RetriedBeforeFailure ==
  \A r \in Reqs :
    (Returned(r) /\ task[r].pc = "Failed") =>
      /\ task[r].outcome.errors = <<"video info failed">> =>
           task[r].info_calls = MAX_RETRIES
      /\ task[r].outcome.errors = <<"subtitle extraction failed">> =>
           task[r].extract_calls = MAX_RETRIES

SubtitlesReturned == call.fn = "extract_subtitles" /\ ret.kind = "tracks"

\* Some offer of the captions dict[lang] downloads and parses.
CaptionsYield(dict, lang) ==
  lang \in DOMAIN dict /\ \E i \in DOMAIN dict[lang] : Yields(dict[lang][i])

\* C14: in every adapter, requested languages ["zh-CN"] against a video
\* whose only manual captions are "zh", with an offer that downloads and
\* parses, return the manual "zh" track and no "en" track.
C14_ZhServesZhCN ==
  (/\ SubtitlesReturned
   /\ call.languages = <<"zh-CN">>
   /\ DOMAIN call.manual = {"zh"}
   /\ CaptionsYield(call.manual, "zh")) =>
     /\ \E i \in DOMAIN ret.tracks :
          ret.tracks[i].language = "zh" /\ ~ret.tracks[i].is_auto_generated
     /\ \A i \in DOMAIN ret.tracks : ret.tracks[i].language # "en"

\* C15: when the returned tracks hold a manual track for the language a
\* requested language resolved to (exact, equivalence-class or base-language
\* match), they hold no automatically generated track of that language.
C15_ManualExcludesAuto ==
  SubtitlesReturned =>
    \A l \in Range(call.languages) :
      \A i, j \in DOMAIN ret.tracks :
        (/\ ~ret.tracks[i].is_auto_generated
         /\ GenericLanguageMatches(ret.tracks[i].language, l)
         /\ ret.tracks[j].is_auto_generated) =>
           ret.tracks[j].language # ret.tracks[i].language

\* C16: in every adapter, when no returned track is of a language a requested
\* language resolves to and the video has English captions, manual or
\* automatic, that download and parse, an English track is returned.
C16_EnglishFallback ==
  (/\ SubtitlesReturned
   /\ \A i \in DOMAIN ret.tracks : \A l \in Range(call.languages) :
        ~GenericLanguageMatches(ret.tracks[i].language, l)
   /\ (CaptionsYield(call.manual, "en") \/ CaptionsYield(call.auto, "en"))) =>
     \E i \in DOMAIN ret.tracks : ret.tracks[i].language = "en"

\* C17: for one language's offers, when some offer downloads and parses,
\* exactly one track is returned, it comes from the first such offer in the
\* adapter's priority order, and the offers downloaded are those before it
\* in that order and itself.
C17_FirstYieldingOffer ==
  (call.fn = "extract_tracks" /\ ret.kind = "tracks") =>
    LET sorted == SortedOffers(FormatPriority(call.adapter), Tagged(call.offers))
        yielding == {k \in DOMAIN sorted : Yields(sorted[k])}
    IN yielding # {} =>
         LET first == CHOOSE k \in yielding : \A m \in yielding : k <= m
             before == SubSeq(sorted, 1, first)
             withurl == SelectSeq(before, LAMBDA o : o.blob # "no_url")
         IN /\ Len(ret.tracks) = 1
            /\ ret.tracks[1].url = sorted[first].url
            /\ ret.tracks[1].format = sorted[first].ext
            /\ ret.fetched = [k \in DOMAIN withurl |-> withurl[k].url]

\* The round trip of a conversion call has ended: the content was generated
\* and parsed back.
RoundTripDone(formats) == ret.kind = "segments" /\ call.format \in formats

\* Two times differ by at most tol ticks.
Within(a, b, tol) == a - b <= tol /\ b - a <= tol

\* C18: for SRT and for VTT, parsing the generated text of any sequence of
\* segments with non-empty text returns as many segments, in the same order,
\* each with the same text and with start and end times within one
\* millisecond of the originals.
C18_SrtVttRoundTrip ==
  RoundTripDone({"srt", "vtt"}) =>
    /\ Len(ret.segments) = Len(call.segments)
    /\ \A i \in DOMAIN call.segments :
         i \in DOMAIN ret.segments =>
           /\ ret.segments[i].text = call.segments[i].text
           /\ Within(ret.segments[i].start_time, call.segments[i].start_time,
                     TicksPerSecond \div 1000)
           /\ Within(ret.segments[i].end_time, call.segments[i].end_time,
                     TicksPerSecond \div 1000)

\* C19: for ASS and for SSA, a segment whose text contains newlines is
\* written with each newline as the format's line-break token and parsed
\* back to the same text, with times within one centisecond of the
\* originals, one parsed segment for each Dialogue line.
C19_AssSsaRoundTrip ==
  RoundTripDone({"ass", "ssa"}) =>
    LET dialogues == SelectSeq(ret.content, LAMBDA l : l.kind = "dialogue")
    IN /\ Len(ret.segments) = Len(dialogues)
       /\ \A i \in DOMAIN call.segments :
            (\E k \in DOMAIN call.segments[i].text : call.segments[i].text[k] = "\n") =>
              /\ \A k \in DOMAIN dialogues[i].chars :
                   dialogues[i].chars[k] =
                     (IF call.segments[i].text[k] = "\n"
                        THEN LineBreakToken(call.format)
                        ELSE call.segments[i].text[k])
              /\ i \in DOMAIN ret.segments
              /\ ret.segments[i].text = call.segments[i].text
              /\ Within(ret.segments[i].start_time, call.segments[i].start_time,
                        TicksPerSecond \div 100)
              /\ Within(ret.segments[i].end_time, call.segments[i].end_time,
                        TicksPerSecond \div 100)

\* C20: for JSON, the parsed segments have exactly the start_time, end_time,
\* text, confidence and language of the input segments, also when a
\* segment's language is empty and the track's is not.
C20_JsonRoundTrip ==
  RoundTripDone({"json"}) =>
    /\ Len(ret.segments) = Len(call.segments)
    /\ \A i \in DOMAIN call.segments :
         /\ ret.segments[i].start_time = call.segments[i].start_time
         /\ ret.segments[i].end_time = call.segments[i].end_time
         /\ ret.segments[i].text = call.segments[i].text
         /\ ret.segments[i].confidence = call.segments[i].confidence
         /\ ret.segments[i].language = call.segments[i].language
\* C21: every seconds-to-time conversion of the registry truncates to the
\* format's sub-second resolution and never rounds: the time written is not
\* after the time given and less than one unit (a millisecond for SRT, VTT,
\* TTML and DFXP, a centisecond for ASS and SSA) before it.
C21_TimesTruncate ==
  (call.fn = "seconds_to_time" /\ ret.kind = "seconds") =>
    /\ ret.seconds <= call.seconds
    /\ call.seconds - ret.seconds < TicksPerSecond \div TimeUnits(call.format)
\* C22: for every parseable format, parsing content without a well-formed
\* cue, malformed content included, returns an empty segment sequence and
\* raises no error.
C22_MalformedParsesEmpty ==
  (call.fn = "parse_subtitle_file" /\ ret.kind # "pending") =>
    /\ ret.kind = "segments"
    /\ ret.segments = <<>>
\* The lines of a text that is, for each segment i counted from 1, the
\* index line, the timing line, the text and a terminating blank line: the
\* text ends with two newlines, so its last two lines are empty.
SrtBlockLines(segments) ==
  Flatten([i \in DOMAIN segments |->
    <<Line("index", <<ToString(i)>>, NoTime, NoTime),
      Line("timing", <<>>, TimeFields(segments[i].start_time, 1000),
           TimeFields(segments[i].end_time, 1000))>>
      \o TextLines(segments[i].text) \o <<EmptyLine>>]) \o <<EmptyLine>>

\* C23: SRT generation writes for each segment the index line, the line
\* HH:MM:SS,mmm --> HH:MM:SS,mmm, the text and a terminating blank line; the
\* VTT document of one cue from 1 s to 3 s reading "Hello world" parses to
\* that single segment, and its conversion to SRT is exactly
\* "1\n00:00:01,000 --> 00:00:03,000\nHello world\n\n".
C23_SrtBlocks ==
  (call.fn = "convert_file" /\ call.target = "srt" /\ ret.kind = "converted") =>
    /\ ret.content = SrtBlockLines(ret.segments)
    /\ call.content = VttDocument(<<ParsedCue(10000, 30000, HelloWorld)>>, "") =>
         /\ ret.segments = <<ParsedCue(10000, 30000, HelloWorld)>>
         /\ ret.content =
              <<Line("index", <<"1">>, NoTime, NoTime),
                Line("timing", <<>>, [h |-> 0, m |-> 0, s |-> 1, f |-> 0],
                     [h |-> 0, m |-> 0, s |-> 3, f |-> 0]),
                Line("text", HelloWorld, NoTime, NoTime),
                EmptyLine, EmptyLine>>
\* C24: the first pass treats every input segment by this rule: a text
\* longer than max_subtitle_length is split; otherwise a duration of at
\* least min_subtitle_duration keeps the segment as it is; otherwise the
\* segment is dropped.  A duration equal to the minimum is kept, a text
\* length equal to the maximum is not split.
C24_FirstPassRule ==
  (call.fn = "post_process_segments" /\ ret.kind = "processed") =>
    /\ ret.processed = Flatten(ret.outputs)
    /\ \A i \in DOMAIN call.segments :
         LET seg == call.segments[i]
             length == TextLen(seg.text)
             duration == seg.end_time - seg.start_time
         IN /\ length > 100 <=> ret.branches[i] = "split"
            /\ (length <= 100 /\ 2 * duration >= TicksPerSecond) =>
                 ret.outputs[i] = <<seg>>
            /\ (length <= 100 /\ 2 * duration < TicksPerSecond) =>
                 ret.outputs[i] = <<>>

\* A segment of exactly 100 characters lasting exactly 0.5 s was kept, next
\* to one that was split or dropped.
C24_Witness ==
  /\ call.fn = "post_process_segments"
  /\ ret.kind = "processed"
  /\ \E i \in DOMAIN call.segments :
       /\ TextLen(call.segments[i].text) = MAX_SUBTITLE_LENGTH
       /\ Duration(call.segments[i]) = MIN_SUBTITLE_DURATION
       /\ ret.outputs[i] = <<call.segments[i]>>
  /\ \E i \in DOMAIN call.segments : ret.branches[i] # "keep"
\* Segments i, i+1 and i+2 of a sequence each last less than twice the
\* minimum duration, are less than a second apart, and their texts joined
\* by spaces stay under the maximum length.
ShortChain(segments, i) ==
  /\ i + 2 <= Len(segments)
  /\ \A j \in i..(i + 2) :
       segments[j].end_time - segments[j].start_time < TicksPerSecond
  /\ \A j \in i..(i + 1) :
       segments[j + 1].start_time - segments[j].end_time < TicksPerSecond
  /\ TextLen(segments[i].text) + 1 + TextLen(segments[i + 1].text) + 1
       + TextLen(segments[i + 2].text) < 100

\* C25: in the merge pass three consecutive segments that each last less
\* than 2 x min_subtitle_duration, lie less than one second apart and whose
\* combined text stays under max_subtitle_length end up in exactly one
\* output segment, which starts with the first and ends with the last of
\* them (or of a longer chain they are part of).
C25_ChainMerges ==
  (call.fn = "merge_short_segments" /\ ret.kind = "merged") =>
    /\ \A i \in DOMAIN call.segments :
         ShortChain(call.segments, i) =>
           \E k \in DOMAIN ret.segments :
             /\ ret.segments[k].start_time <= call.segments[i].start_time
             /\ ret.segments[k].end_time >= call.segments[i + 2].end_time
    /\ (Len(call.segments) = 3 /\ ShortChain(call.segments, 1)) =>
         /\ Len(ret.segments) = 1
         /\ ret.segments[1].start_time = call.segments[1].start_time
         /\ ret.segments[1].end_time = call.segments[3].end_time
\* The segments are in ascending order of start time, no segment starts
\* before the one before it has ended, and each starts before it ends.
WellOrdered(segments) ==
  /\ \A i \in DOMAIN segments : segments[i].start_time < segments[i].end_time
  /\ \A i \in 1..(Len(segments) - 1) :
       /\ segments[i].start_time <= segments[i + 1].start_time
       /\ segments[i].end_time <= segments[i + 1].start_time

C28_SplitSharesTime ==
  (call.fn = "split_long_segment" /\ ret.kind = "split" /\ Len(ret.segments) >= 2) =>
    LET pieces == ret.segments
        k == Len(pieces)
    IN /\ pieces[1].start_time = call.segment.start_time
       /\ pieces[k].end_time = call.segment.end_time
       /\ \A j \in 1..(k - 1) : pieces[j].end_time = pieces[j + 1].start_time
       /\ \A j \in 1..k :
            k * (pieces[j].end_time - pieces[j].start_time)
              = call.segment.end_time - call.segment.start_time
\* C27: the filename a (track, format) output is written under holds none
\* of the characters < > : " / \ | ? * and is at most 100 characters long,
\* whatever the title, the uploader, the language name, the source and the
\* filename template are.
C27_SafeFilename ==
  (call.fn = "generate_filename" /\ ret.kind = "filename") =>
    /\ Len(ret.filename) <= 100
    /\ \A i \in DOMAIN ret.filename :
         ret.filename[i] \notin {"<", ">", ":", "\"", "/", "\\", "|", "?", "*"}
\* C29: in any interleaving of concurrent requests each Whisper model name
\* is loaded at most once: no request is loading a model that is cached
\* already, and no two requests are loading the same model.
C29_ModelLoadedOnce ==
  /\ \A r \in DOMAIN task :
       task[r].pc = "loading" => task[r].model \notin whisper_models
  /\ \A r1, r2 \in DOMAIN task :
       (r1 # r2 /\ task[r1].pc = "loading" /\ task[r2].pc = "loading") =>
         task[r1].model # task[r2].model
\* No call of download_subtitles is between its first and its last step,
\* and none was cancelled by its caller.
NoRequestInFlight ==
  /\ batchpc # "Cancelled"
  /\ \A r \in DOMAIN task : task[r].pc \in {"queued", "Done", "Failed", "Raised"}

\* C30: the counters of the orchestrator stay consistent: every call of
\* download_subtitles adds one to total_requests and one to exactly one of
\* successful_downloads and failed_requests, so that with no request in
\* flight total_requests = successful_downloads + failed_requests, and
\* ai_generated_count does not exceed successful_downloads.
C30_StatsConsistent ==
  NoRequestInFlight =>
    /\ stats.total_requests = stats.successful_downloads + stats.failed_requests
    /\ stats.ai_generated_count <= stats.successful_downloads

====
